---- MODULE Spec2Model ----
(***************************************************************************)
(* Model of the CiaTc agent lock (agent_lock.py) and of the two hooks     *)
(* that use it (band_orchestrator_stop.py, band_orchestrator_main.py).    *)
(*                                                                         *)
(* The lock directory is modelled at the level of the system calls the    *)
(* code makes: open(path, 'w') creates or truncates the file the path     *)
(* names, flock() locks the open file description's inode, unlink()       *)
(* removes the directory entry while open descriptions keep the inode.    *)
(***************************************************************************)
EXTENDS Integers, Sequences, FiniteSets, TLC

\* ---------------------------------------------------------------- bounds
MaxInodes == 6
TickStep == 600
MaxClock == 1200
MaxMtime == 3
MaxDefs == 2
MaxImpacted == 16
MaxHigh == 6
\* the timeout of a bounded-wait acquire, in polling intervals
WaitTimeout == 2
\* the latest time at which an acquire starts
WaitHorizon == 2
\* the largest number of changed files
MaxChanged == 101
\* the largest number of changed files given to select_agents
MaxSelected == 11

\* ------------------------------------------------------ program constants
DEFAULT_MAX_AGE == 600
STOP_MAX_AGE == 600

\* ------------------------------------------------------------ the domains
\* the populations of the scenarios: two processes using the lock API, two
\* contenders of the self-test, one process running only cleanup_stale_locks,
\* two hook invocations
ApiNames == {"john"}
TestAgent == "test_agent"
Names == {"john", "gilfoyle", "paul", "ringo", TestAgent}
Procs == {<<1, "api">>, <<2, "api">>}
Testers == {<<1, "test">>, <<2, "test">>}
Cleaner == <<3, "cleaner">>
Hooks == {1, 2}
Mains == {<<h, "main">> : h \in Hooks}
Workers == {<<h, n>> : h \in Hooks, n \in Names \ {TestAgent}}
Actors == Procs \cup Testers \cup {Cleaner} \cup Mains \cup Workers
Inodes == 1..MaxInodes
NoInode == 0
NoName == "-"
NoLines == <<>>
\* a new or freed inode: an empty file whose lock nobody ever acquired
EmptyRec == [lines |-> NoLines, acquiredAt |-> <<>>]

VARIABLES
  path,       \* LOCK_DIR: name -> inode of <name>.lock, NoInode when absent
  content,    \* inode -> lines: the lines of the file, <<>> or <<pid, timestamp>>;
              \*          acquiredAt: history, the time of the last successful
              \*          acquire through this file (the code does not store it)
  now,        \* time.time()
  pc,         \* actor -> position in the operation it executes
  lname,      \* actor -> AgentLock.agent_name of the lock object it owns
  fd,         \* actor -> AgentLock.fd (the inode it has open), NoInode = None
  fdLocked,   \* actor -> the description AgentLock.fd holds the flock
  pname,      \* actor -> name probed by is_locked / cleanup_stale_locks
  tmp,        \* actor -> the inode opened 'r' by the probe (f), or NoInode
  tmpLocked,  \* actor -> the description f holds the flock
  todo,       \* actor -> lock files cleanup_stale_locks still has to visit
  kind,       \* hook invocation -> hook_event_name it was started for
  agents,     \* hook invocation -> agents_to_run
  toProbe,    \* hook invocation -> agents its is_locked loop has not visited
  observed,   \* hook invocation -> agents is_locked reported as locked
              \*                    (skipped in the Stop hook, running in main)
  futures,    \* hook invocation -> futures not collected yet, in dict order
  outcome,    \* worker thread -> diagnostic the collection loop printed for it
  wres,       \* worker thread -> how the submitted callable ended
  saved       \* hook invocation -> the cache items it has written to disk

fsVars == <<path, content, now>>
lockVars == <<pc, lname, fd, fdLocked, pname, tmp, tmpLocked, todo>>
hookVars == <<kind, agents, toProbe, observed, futures, outcome, wres, saved>>

\* ------------------------------------------- the project tree and its caches
\* the files of the project root, as the parts of their relative paths; the
\* directories "lib" and ".git" exist throughout
Paths == {<<"a.py">>, <<"lib", "b.py">>, <<".git", "c">>}
\* the parts of the paths above that start with "."
DotParts == {".git", ".claude"}
Contents == {"v1", "v2"}
NoHash == "-"
HASH_ERROR == "error"
Absent == [exists |-> FALSE, data |-> "", readable |-> FALSE]
FileStates == {Absent} \cup [exists : {TRUE}, data : Contents, readable : BOOLEAN]

VARIABLES
  tree,           \* path -> the file at project_root / path
  rootMtime,      \* project_root.stat().st_mtime
  lastScanMtime,  \* SmartOrchestrator.cache["last_scan_mtime"], 0 when absent
  fileHashes,     \* SmartOrchestrator.file_hashes: path -> hash, NoHash = no key
  returned        \* history: the sets get_changed_files returned since the
                  \*          last modification of the tree (the last two)

scanVars == <<tree, rootMtime, lastScanMtime, fileHashes, returned>>

\* ------------------------------------------------------ the dependency graph
\* two source files of the project: one that defines, one that imports and calls
DEFINER == "core.py"
GraphFiles == {DEFINER, "app.py"}
\* the definitions the parser can extract: a name and its signature text
DefItems ==
  { [name |-> "helper", signature |-> "helper(a)"],
    [name |-> "helper", signature |-> "helper(a, b)"],
    [name |-> "last_modified", signature |-> "last_modified(a)"] }
DefNames == {d.name : d \in DefItems}
\* the import identifiers the parser can extract
ImportIds == {"Core.utils", "os"}

VARIABLES
  source,   \* file -> what parse_with_treesitter extracts from its current text
  graph,    \* BuildHealthMonitor.dependency_graph: file -> <<entry>>, <<>> = no key
  impacts,  \* file -> <<entry>> of the dict the last find_impacted_files returned
  replaced  \* history: the last analysis re-analysed an unchanged file whose
            \*          entry carried signature changes

graphVars == <<source, graph, impacts, replaced>>
\* ------------------------------------------------- cycles and the risk level
\* three more source files, and the import identifiers that name them
CycleFiles == {"ab.py", "b.py", "c.py"}
CycleIds == {"ab", "b", "c"}

VARIABLES
  deps,         \* file -> dependency_graph[file]['imports'], for CycleFiles
  fileImpacts,  \* self.file_impacts: the number of impact entries and the
                \*                    number of them with severity high
  sigChanged,   \* some changed file has an entry with signature changes
  circular,     \* <<what detect_circular_dependencies returned>>, or <<>>
  risk          \* <<what calculate_risk_level returned>>, or <<>>

riskVars == <<deps, fileImpacts, sigChanged, circular, risk>>

\* ------------------------------------------------------ the persisted stores
\* orchestrator cache, file hash cache, dependency graph file
Stores == {"cache", "hashes", "graph"}
\* what the file of a store can be: missing, not readable, not JSON, JSON
\* that is no object (a list, a string, a number, null), a JSON object
Shapes == {"absent", "unreadable", "malformed", "wrong_shape", "object"}

VARIABLES
  disk,        \* store -> the shape of its file
  store,       \* store -> the value the load returned: "none" before the load,
               \*          "empty" for {}, "object", or "wrong_shape"
  raised,      \* the stores whose load or use raised to the caller
  runPc,       \* position of the build-health run (gilfoyle_agent.main)
  reported,    \* main printed the report
  exitStatus   \* <<exit status of the build-health process>>, <<>> while it runs

storeVars == <<disk, store, raised, runPc, reported, exitStatus>>

\* --------------------------------------------- a hook process and its streams
\* the values of CIATC_SUBPROCESS in the environment of a hook
EnvValues == {"unset", "true", "1"}
\* what standard input holds: an event of either hook, JSON that is no object,
\* text that is no JSON
Events == {"UserPromptSubmit", "Stop", "not_dict", "malformed"}

VARIABLES
  script,   \* the hook the process runs: "UserPromptSubmit" or "Stop"
  env,      \* os.environ.get('CIATC_SUBPROCESS')
  event,    \* the text on standard input
  hpc,      \* position of main() of the hook
  stdout,   \* what the process printed on standard output, in order: "raw" the
            \* text read, "dumped" json.dumps(event), "report", "diagnostic"
  stderr,   \* the failures reported on standard error
  effects,  \* what the process did beside its streams
  status    \* <<exit status>>, <<>> while the process runs

pipeVars == <<script, env, event, hpc, stdout, stderr, effects, status>>
\* ------------------------------------------------- acquire with a timeout
VARIABLES
  timeout,  \* process -> AgentLock.timeout of the lock object it owns
  start     \* process -> start, the time its polling loop began

waitVars == <<timeout, start>>

\* ------------------------------------------------------ the rendered reasons
VARIABLES
  texts     \* history: changed file and reason strings of the last runs of
            \*          find_impacted_files over the same dependency graph

\* ------------------------------------------------ the plan of an invocation
VARIABLES
  prompt,      \* the user's prompt, as its characters
  lastRun,     \* cache["last_run"]: "never" when absent, else whether it is
               \*                    less than 300 s old ("recent") or not ("old")
  nChanged,    \* the number of changed files handed to select_agents and to
               \*   the Conductor
  selected,    \* <<the list select_agents returned>>
  plan,        \* <<the dict get_execution_plan returned>>
  decision,    \* <<the dict run_conductor returned>>
  dispatched   \* <<the timeout the hook passed to its workers>>

planVars == <<prompt, lastRun, nChanged, selected, plan, decision, dispatched>>

\* ------------------------------------------- the impact map and its writers
\* the build-health invocations that overlap on one project
Monitors == {1, 2}

VARIABLES
  impactMap,   \* <<the order generate_report processed the changed files in,
               \*   and file_impacts at its end>>
  gfile,       \* dependency_graph.json: file -> the invocation that wrote its
               \*                         entry, 0 when the file has no entry
  mem,         \* invocation -> its self.dependency_graph, like gfile
  mpc,         \* invocation -> position in main / generate_report
  changedBy    \* invocation -> the changed files it detected

monitorVars == <<gfile, mem, mpc, changedBy>>

\* the components declared last
lastVars == <<planVars, impactMap, monitorVars>>

\* the components declared after the dependency graph
laterVars == <<riskVars, storeVars, pipeVars, waitVars, texts, lastVars>>
\* the state of the components the lock and the hooks leave alone
otherVars == <<scanVars, graphVars, laterVars>>
vars == <<path, content, now, pc, lname, fd, fdLocked, pname, tmp, tmpLocked, todo,
          kind, agents, toProbe, observed, futures, outcome, wres, saved,
          tree, rootMtime, lastScanMtime, fileHashes, returned,
          source, graph, impacts, replaced,
          deps, fileImpacts, sigChanged, circular, risk,
          disk, store, raised, runPc, reported, exitStatus,
          script, env, event, hpc, stdout, stderr, effects, status,
          timeout, start, texts,
          prompt, lastRun, nChanged, selected, plan, decision, dispatched,
          impactMap, gfile, mem, mpc, changedBy>>

\* ------------------------------------------------------------ file system
\* An inode is referenced while a directory entry or an open description names it.
Referenced(i, p, f, t) ==
  \/ \E n \in Names : p[n] = i
  \/ \E a \in Actors : f[a] = i \/ t[a] = i

\* The kernel frees an inode with no reference left; its number can be reused.
Reclaim(c, p, f, t) ==
  [i \in Inodes |-> IF Referenced(i, p, f, t) THEN c[i] ELSE EmptyRec]

FreshInode ==
  CHOOSE i \in Inodes :
    /\ ~Referenced(i, path, fd, tmp)
    /\ \A j \in Inodes : ~Referenced(j, path, fd, tmp) => i <= j

\* a flock that excludes nobody
FlockExcludesNobody(a, i, isTmp) == FALSE

\* flock(LOCK_EX | LOCK_NB) by a description of inode i succeeds unless another
\* description of the same inode holds the lock.
FlockHeldByOther(a, i, isTmp) ==
  \/ \E b \in Actors : (b # a \/ isTmp) /\ fd[b] = i /\ fdLocked[b]
  \/ \E b \in Actors : (b # a \/ ~isTmp) /\ tmp[b] = i /\ tmpLocked[b]

\* os.getpid() of the process an actor runs in
Pid(a) == a[1]

\* position of an actor that executes nothing
IdlePc(a) ==
  IF a \in Procs \cup {Cleaner} THEN "idle"
  ELSE IF a \in Testers THEN "t_start"
  ELSE IF a \in Mains THEN "h_idle" ELSE "w_idle"

\* where an actor continues when the lock operation it called returns
AfterAcquire(a, r) ==
  IF a \in Procs THEN "idle"
  ELSE IF a \in Testers THEN
    (IF r THEN "t_won"
     ELSE IF \E b \in Testers : pc[b] = "t_released" THEN "t_failed" ELSE "t_lost")
  ELSE IF r THEN "w_run" ELSE "w_skip"
AfterRelease(a) ==
  IF a \in Procs THEN "idle" ELSE IF a \in Testers THEN "t_released" ELSE "w_end"
AfterIsLocked(a, r) == IF a \in Procs THEN "idle" ELSE IF r THEN "m_locked" ELSE "m_free"
AfterCleanup(a) ==
  IF a \in Procs THEN "idle" ELSE IF a = Cleaner THEN "cl_done" ELSE "m_check"

\* max_age_seconds the actor passes to cleanup_stale_locks
MaxAgeOf(a) == IF a \in Mains THEN STOP_MAX_AGE ELSE DEFAULT_MAX_AGE

TypeOK ==
  /\ path \in [Names -> Inodes \cup {NoInode}]
  /\ now \in 0..MaxClock
  /\ fd \in [Actors -> Inodes \cup {NoInode}]
  /\ tmp \in [Actors -> Inodes \cup {NoInode}]
  /\ fdLocked \in [Actors -> BOOLEAN]
  /\ tmpLocked \in [Actors -> BOOLEAN]
  /\ lname \in [Actors -> Names \cup {NoName}]
  /\ pname \in [Actors -> Names \cup {NoName}]
  /\ todo \in [Actors -> SUBSET Names]
  /\ \A a \in Actors : fdLocked[a] => fd[a] # NoInode
  /\ \A a \in Actors : tmpLocked[a] => tmp[a] # NoInode
  /\ kind \in [Hooks -> {"none", "Stop", "UserPromptSubmit"}]
  /\ agents \in [Hooks -> SUBSET Names]
  /\ observed \in [Hooks -> SUBSET Names]
  /\ outcome \in [Workers -> {"none", "completed", "locked", "failed"}]
  /\ wres \in [Workers -> {"none", "skipped", "ok", "error", "timeout", "raised"}]
  /\ saved \in [Hooks -> SUBSET {"last_run", "last_agents", "file_hashes"}]
  /\ tree \in [Paths -> FileStates]
  /\ rootMtime \in 1..MaxMtime
  /\ lastScanMtime \in 0..MaxMtime
  /\ fileHashes \in [Paths -> {NoHash, HASH_ERROR, "md5(v1)", "md5(v2)"}]
  /\ returned \in Seq(SUBSET Paths) /\ Len(returned) <= 2
  /\ \A f \in GraphFiles : Len(graph[f]) <= 1 /\ Len(impacts[f]) <= 1
  /\ \A f \in GraphFiles : Len(source[f].definitions) <= MaxDefs
  /\ replaced \in BOOLEAN
  /\ deps \in [CycleFiles -> SUBSET CycleIds]
  /\ fileImpacts.high <= fileImpacts.total
  /\ sigChanged \in BOOLEAN
  /\ Len(circular) <= 1 /\ Len(risk) <= 1
  /\ disk \in [Stores -> Shapes]
  /\ store \in [Stores -> {"none", "empty", "object", "wrong_shape"}]
  /\ raised \subseteq Stores
  /\ reported \in BOOLEAN
  /\ Len(exitStatus) <= 1
  /\ script \in {"UserPromptSubmit", "Stop"}
  /\ env \in EnvValues
  /\ event \in Events
  /\ stderr \subseteq {"event", "setup", "worker", "cache"}
  /\ effects \subseteq {"cache_read", "cache_write", "lock_probe", "lock_acquire", "worker"}
  /\ Len(status) <= 1
  /\ timeout \in [Procs -> Nat]
  /\ start \in [Procs -> Nat]
  /\ Len(texts) <= 2
  /\ lastRun \in {"never", "recent", "old"}
  /\ nChanged \in Nat
  /\ Len(selected) <= 1 /\ Len(plan) <= 1 /\ Len(decision) <= 1
  /\ Len(dispatched) <= 1 /\ Len(impactMap) <= 1
  /\ gfile \in [GraphFiles -> {0} \cup Monitors]
  /\ mem \in [Monitors -> [GraphFiles -> {0} \cup Monitors]]
  /\ changedBy \in [Monitors -> SUBSET GraphFiles]

\* an empty project that was never scanned: no cache file, no hash file
NoProject ==
  /\ tree = [p \in Paths |-> Absent]
  /\ rootMtime = 1
  /\ lastScanMtime = 0
  /\ fileHashes = [p \in Paths |-> NoHash]
  /\ returned = <<>>

\* no dependency graph file on disk, and nothing analysed yet
NoGraph ==
  /\ source = [f \in GraphFiles |-> [imports |-> {}, definitions |-> <<>>, calls |-> {}]]
  /\ graph = [f \in GraphFiles |-> <<>>]
  /\ impacts = [f \in GraphFiles |-> <<>>]
  /\ replaced = FALSE

\* no file analysed, no impact computed, no risk level calculated
NoRisk ==
  /\ deps = [f \in CycleFiles |-> {}]
  /\ fileImpacts = [total |-> 0, high |-> 0]
  /\ sigChanged = FALSE
  /\ circular = <<>>
  /\ risk = <<>>

\* no store on disk, nothing loaded, no build-health run started
NoStores ==
  /\ disk = [s \in Stores |-> "absent"]
  /\ store = [s \in Stores |-> "none"]
  /\ raised = {}
  /\ runPc = "idle"
  /\ reported = FALSE
  /\ exitStatus = <<>>

\* no hook process observed at the level of its streams
NoPipe ==
  /\ script = "Stop"
  /\ env = "unset"
  /\ event = "Stop"
  /\ hpc = "start"
  /\ stdout = <<>>
  /\ stderr = {}
  /\ effects = {}
  /\ status = <<>>

\* every lock object is non-blocking, no reason rendered
NoWait ==
  /\ timeout = [a \in Procs |-> 0]
  /\ start = [a \in Procs |-> 0]
  /\ texts = <<>>

\* no plan made, no report generated, no build-health invocation started
NoLast ==
  /\ prompt = <<>>
  /\ lastRun = "never"
  /\ nChanged = 0
  /\ selected = <<>>
  /\ plan = <<>>
  /\ decision = <<>>
  /\ dispatched = <<>>
  /\ impactMap = <<>>
  /\ gfile = [f \in GraphFiles |-> 0]
  /\ mem = [m \in Monitors |-> [f \in GraphFiles |-> 0]]
  /\ mpc = [m \in Monitors |-> "idle"]
  /\ changedBy = [m \in Monitors |-> {}]

\* the lock directory p, c with every process, thread and hook at its start
IdleWith(p, c) ==
  /\ path = p
  /\ content = c
  /\ now = 0
  /\ pc = [a \in Actors |-> IdlePc(a)]
  /\ lname = [a \in Actors |-> NoName]
  /\ fd = [a \in Actors |-> NoInode]
  /\ fdLocked = [a \in Actors |-> FALSE]
  /\ pname = [a \in Actors |-> NoName]
  /\ tmp = [a \in Actors |-> NoInode]
  /\ tmpLocked = [a \in Actors |-> FALSE]
  /\ todo = [a \in Actors |-> {}]
  /\ kind = [h \in Hooks |-> "none"]
  /\ agents = [h \in Hooks |-> {}]
  /\ toProbe = [h \in Hooks |-> <<>>]
  /\ observed = [h \in Hooks |-> {}]
  /\ futures = [h \in Hooks |-> <<>>]
  /\ outcome = [w \in Workers |-> "none"]
  /\ wres = [w \in Workers |-> "none"]
  /\ saved = [h \in Hooks |-> {}]

\* the state after start-up with lock directory p, c
InitWith(p, c) == IdleWith(p, c) /\ NoProject /\ NoGraph /\ NoRisk /\ NoStores /\ NoPipe /\ NoWait /\ NoLast

\* LOCK_DIR.mkdir(parents=True, exist_ok=True): an empty lock directory
Init == InitWith([n \in Names |-> NoInode], [i \in Inodes |-> EmptyRec])

\* time.time() advances by d
Elapse(d) ==
  /\ d > 0
  /\ now + d <= MaxClock
  /\ now' = now + d
  /\ UNCHANGED <<path, content, lockVars, hookVars, otherVars>>

\* time passes
Tick == Elapse(TickStep)

\* a pause longer than every max_age_seconds in use
LongPause == Elapse(MaxClock - now)

\* ------------------------------------------------------ AgentLock.acquire
\* self.fd = open(self.lock_file, 'w'): creates the file, or truncates the file
\* the path names, whoever holds its lock.
OpenW(a, n) ==
  LET i == IF path[n] = NoInode THEN FreshInode ELSE path[n] IN
  /\ fd[a] = NoInode
  /\ path[n] = NoInode => \E j \in Inodes : ~Referenced(j, path, fd, tmp)
  /\ path' = [path EXCEPT ![n] = i]
  /\ content' = [content EXCEPT ![i].lines = NoLines]
  /\ fd' = [fd EXCEPT ![a] = i]
  /\ lname' = [lname EXCEPT ![a] = n]
  /\ pc' = [pc EXCEPT ![a] = "acq_flock"]
  /\ UNCHANGED <<now, fdLocked, pname, tmp, tmpLocked, todo, otherVars>>

\* open() raises: except Exception, self.fd is still None, return False
OpenWError(a, n) ==
  /\ fd[a] = NoInode
  /\ pc' = [pc EXCEPT ![a] = AfterAcquire(a, FALSE)]
  /\ UNCHANGED <<fsVars, lname, fd, fdLocked, pname, tmp, tmpLocked, todo, otherVars>>

\* fcntl.flock(LOCK_EX | LOCK_NB) with timeout == 0; BlockingIOError closes
\* the file and returns False
AcqFlock(a) ==
  /\ pc[a] = "acq_flock"
  /\ IF FlockHeldByOther(a, fd[a], FALSE)
       THEN /\ fd' = [fd EXCEPT ![a] = NoInode]
            /\ lname' = [lname EXCEPT ![a] = NoName]
            /\ content' = Reclaim(content, path, fd', tmp)
            /\ pc' = [pc EXCEPT ![a] = AfterAcquire(a, FALSE)]
            /\ UNCHANGED fdLocked
       ELSE /\ fdLocked' = [fdLocked EXCEPT ![a] = TRUE]
            /\ pc' = [pc EXCEPT ![a] = "acq_write"]
            /\ UNCHANGED <<fd, lname, content>>
  /\ UNCHANGED <<path, now, pname, tmp, tmpLocked, todo, otherVars>>

\* self.fd.write(f"{os.getpid()}\n{time.time()}\n"); flush; return True
AcqWrite(a) ==
  /\ pc[a] = "acq_write"
  /\ content' = [content EXCEPT ![fd[a]] = [lines |-> <<Pid(a), now>>, acquiredAt |-> <<now>>]]
  /\ pc' = [pc EXCEPT ![a] = AfterAcquire(a, TRUE)]
  /\ UNCHANGED <<path, now, lname, fd, fdLocked, pname, tmp, tmpLocked, todo, otherVars>>

\* write() or flush() raises: except Exception closes the file (which drops
\* the flock) and returns False
AcqWriteError(a) ==
  /\ pc[a] = "acq_write"
  /\ fd' = [fd EXCEPT ![a] = NoInode]
  /\ fdLocked' = [fdLocked EXCEPT ![a] = FALSE]
  /\ lname' = [lname EXCEPT ![a] = NoName]
  /\ content' = Reclaim(content, path, fd', tmp)
  /\ pc' = [pc EXCEPT ![a] = AfterAcquire(a, FALSE)]
  /\ UNCHANGED <<path, now, pname, tmp, tmpLocked, todo, otherVars>>

\* ------------------------------------------------------ AgentLock.release
\* if self.fd: flock(LOCK_UN); self.fd.close(); self.fd = None
RelUnlockClose(a) ==
  /\ fd[a] # NoInode
  /\ fdLocked' = [fdLocked EXCEPT ![a] = FALSE]
  /\ fd' = [fd EXCEPT ![a] = NoInode]
  /\ content' = Reclaim(content, path, fd', tmp)
  /\ pc' = [pc EXCEPT ![a] = "rel_unlink"]
  /\ UNCHANGED <<path, now, lname, pname, tmp, tmpLocked, todo, otherVars>>

\* if self.lock_file.exists(): self.lock_file.unlink(), by path
RelUnlink(a) ==
  /\ pc[a] = "rel_unlink"
  /\ path' = [path EXCEPT ![lname[a]] = NoInode]
  /\ content' = Reclaim(content, path', fd, tmp)
  /\ lname' = [lname EXCEPT ![a] = NoName]
  /\ pc' = [pc EXCEPT ![a] = AfterRelease(a)]
  /\ UNCHANGED <<now, fd, fdLocked, pname, tmp, tmpLocked, todo, otherVars>>

\* ---------------------------------------------------- AgentLock.is_locked
\* if not exists: return False; open(self.lock_file, 'r') (FileNotFoundError
\* returns False as well)
IlOpen(a, n) ==
  /\ IF path[n] = NoInode
       THEN /\ pc' = [pc EXCEPT ![a] = AfterIsLocked(a, FALSE)]
            /\ UNCHANGED <<tmp, pname>>
       ELSE /\ tmp' = [tmp EXCEPT ![a] = path[n]]
            /\ pname' = [pname EXCEPT ![a] = n]
            /\ pc' = [pc EXCEPT ![a] = "il_flock"]
  /\ UNCHANGED <<fsVars, lname, fd, fdLocked, tmpLocked, todo, otherVars>>

\* flock(LOCK_EX | LOCK_NB) on f; BlockingIOError: return True
IlFlock(a) ==
  /\ pc[a] = "il_flock"
  /\ IF FlockHeldByOther(a, tmp[a], TRUE)
       THEN /\ tmp' = [tmp EXCEPT ![a] = NoInode]
            /\ pname' = [pname EXCEPT ![a] = NoName]
            /\ content' = Reclaim(content, path, fd, tmp')
            /\ pc' = [pc EXCEPT ![a] = AfterIsLocked(a, TRUE)]
            /\ UNCHANGED tmpLocked
       ELSE /\ tmpLocked' = [tmpLocked EXCEPT ![a] = TRUE]
            /\ pc' = [pc EXCEPT ![a] = "il_unlock"]
            /\ UNCHANGED <<tmp, pname, content>>
  /\ UNCHANGED <<path, now, lname, fd, fdLocked, todo, otherVars>>

\* an is_locked that returns with its probe lock still held
IlReturnLocked(a) ==
  /\ pc[a] = "il_unlock"
  /\ pc' = [pc EXCEPT ![a] = AfterIsLocked(a, FALSE)]
  /\ UNCHANGED <<fsVars, lname, fd, fdLocked, pname, tmp, tmpLocked, todo, otherVars>>

\* flock(LOCK_UN); return False (the with block closes f)
IlUnlock(a) ==
  /\ pc[a] = "il_unlock"
  /\ tmpLocked' = [tmpLocked EXCEPT ![a] = FALSE]
  /\ tmp' = [tmp EXCEPT ![a] = NoInode]
  /\ pname' = [pname EXCEPT ![a] = NoName]
  /\ content' = Reclaim(content, path, fd, tmp')
  /\ pc' = [pc EXCEPT ![a] = AfterIsLocked(a, FALSE)]
  /\ UNCHANGED <<path, now, lname, fd, fdLocked, todo, otherVars>>

\* ---------------------------------------------------- cleanup_stale_locks
\* LOCK_DIR.glob("*.lock") lists the directory once
ClGlob(a) ==
  /\ todo' = [todo EXCEPT ![a] = {n \in Names : path[n] # NoInode}]
  /\ pc' = [pc EXCEPT ![a] = "cl_next"]
  /\ UNCHANGED <<fsVars, lname, fd, fdLocked, pname, tmp, tmpLocked, otherVars>>

\* next lock_file of the listing: open(lock_file, 'r'); a file that is gone
\* raises into the per-file except and the loop goes on
ClOpen(a) ==
  /\ pc[a] = "cl_next"
  /\ IF todo[a] = {}
       THEN /\ pc' = [pc EXCEPT ![a] = AfterCleanup(a)]
            /\ UNCHANGED <<todo, tmp, pname>>
       ELSE \E n \in todo[a] :
            /\ todo' = [todo EXCEPT ![a] = @ \ {n}]
            /\ IF path[n] = NoInode
                 THEN UNCHANGED <<tmp, pname, pc>>
                 ELSE /\ tmp' = [tmp EXCEPT ![a] = path[n]]
                      /\ pname' = [pname EXCEPT ![a] = n]
                      /\ pc' = [pc EXCEPT ![a] = "cl_flock"]
  /\ UNCHANGED <<fsVars, lname, fd, fdLocked, tmpLocked, otherVars>>

\* flock(LOCK_EX | LOCK_NB); BlockingIOError: the lock is held, leave it alone
ClFlock(a) ==
  /\ pc[a] = "cl_flock"
  /\ IF FlockHeldByOther(a, tmp[a], TRUE)
       THEN /\ tmp' = [tmp EXCEPT ![a] = NoInode]
            /\ pname' = [pname EXCEPT ![a] = NoName]
            /\ content' = Reclaim(content, path, fd, tmp')
            /\ pc' = [pc EXCEPT ![a] = "cl_next"]
            /\ UNCHANGED tmpLocked
       ELSE /\ tmpLocked' = [tmpLocked EXCEPT ![a] = TRUE]
            /\ pc' = [pc EXCEPT ![a] = "cl_unlock"]
            /\ UNCHANGED <<tmp, pname, content>>
  /\ UNCHANGED <<path, now, lname, fd, fdLocked, todo, otherVars>>

\* flock(LOCK_UN), before the record is read
ClUnlock(a) ==
  /\ pc[a] = "cl_unlock"
  /\ tmpLocked' = [tmpLocked EXCEPT ![a] = FALSE]
  /\ pc' = [pc EXCEPT ![a] = "cl_read"]
  /\ UNCHANGED <<fsVars, lname, fd, fdLocked, pname, tmp, todo, otherVars>>

\* len(lines) >= 2 and time.time() - float(lines[1]) > max_age_seconds
IsStaleRecord(lines, t, maxAge) ==
  /\ Len(lines) >= 2
  /\ t - lines[2] > maxAge

\* lines = f.readlines(); the age check; a record that stays is closed
ClRead(a) ==
  /\ pc[a] = "cl_read"
  /\ IF IsStaleRecord(content[tmp[a]].lines, now, MaxAgeOf(a))
       THEN /\ pc' = [pc EXCEPT ![a] = "cl_unlink"]
            /\ UNCHANGED <<tmp, pname, content>>
       ELSE /\ tmp' = [tmp EXCEPT ![a] = NoInode]
            /\ pname' = [pname EXCEPT ![a] = NoName]
            /\ content' = Reclaim(content, path, fd, tmp')
            /\ pc' = [pc EXCEPT ![a] = "cl_next"]
  /\ UNCHANGED <<path, now, lname, fd, fdLocked, tmpLocked, todo, otherVars>>

\* lock_file.unlink(), by path; then the with block closes f
ClUnlink(a) ==
  /\ pc[a] = "cl_unlink"
  /\ path' = [path EXCEPT ![pname[a]] = NoInode]
  /\ tmp' = [tmp EXCEPT ![a] = NoInode]
  /\ pname' = [pname EXCEPT ![a] = NoName]
  /\ content' = Reclaim(content, path', fd, tmp')
  /\ pc' = [pc EXCEPT ![a] = "cl_next"]
  /\ UNCHANGED <<now, lname, fd, fdLocked, tmpLocked, todo, otherVars>>

\* --------------------------------------------- processes using the lock API
\* lock = AgentLock(n); lock.acquire()
ApiAcquire(a) ==
  /\ pc[a] = "idle"
  /\ \E n \in ApiNames : OpenW(a, n)
  /\ UNCHANGED hookVars

ApiAcquireError(a) ==
  /\ pc[a] = "idle"
  /\ \E n \in ApiNames : OpenWError(a, n)
  /\ UNCHANGED hookVars

\* lock.release() by the owner of an acquired lock
ApiRelease(a) ==
  /\ pc[a] = "idle"
  /\ RelUnlockClose(a)
  /\ UNCHANGED hookVars

\* AgentLock(n).is_locked()
ApiIsLocked(a) ==
  /\ pc[a] = "idle"
  /\ \E n \in ApiNames : IlOpen(a, n)
  /\ UNCHANGED hookVars

\* cleanup_stale_locks()
ApiCleanup(a) ==
  /\ pc[a] = "idle"
  /\ ClGlob(a)
  /\ UNCHANGED hookVars

\* the process dies: the kernel closes its descriptors, which drops its flocks;
\* the lock file stays
ApiCrash(a) ==
  /\ pc[a] # "dead"
  /\ fd[a] # NoInode \/ tmp[a] # NoInode \/ pc[a] # "idle"
  /\ fd' = [fd EXCEPT ![a] = NoInode]
  /\ fdLocked' = [fdLocked EXCEPT ![a] = FALSE]
  /\ tmp' = [tmp EXCEPT ![a] = NoInode]
  /\ tmpLocked' = [tmpLocked EXCEPT ![a] = FALSE]
  /\ content' = Reclaim(content, path, fd', tmp')
  /\ pc' = [pc EXCEPT ![a] = "dead"]
  /\ lname' = [lname EXCEPT ![a] = NoName]
  /\ pname' = [pname EXCEPT ![a] = NoName]
  /\ todo' = [todo EXCEPT ![a] = {}]
  /\ UNCHANGED <<path, now, hookVars, otherVars>>

\* another process is started in its place
ApiRestart(a) ==
  /\ pc[a] = "dead"
  /\ pc' = [pc EXCEPT ![a] = "idle"]
  /\ UNCHANGED <<fsVars, lname, fd, fdLocked, pname, tmp, tmpLocked, todo, hookVars, otherVars>>

LockStep(a) ==
  \/ AcqFlock(a)
  \/ AcqWrite(a)
  \/ AcqWriteError(a)
  \/ RelUnlink(a)
  \/ IlFlock(a)
  \/ IlUnlock(a)
  \/ ClOpen(a)
  \/ ClFlock(a)
  \/ ClUnlock(a)
  \/ ClRead(a)
  \/ ClUnlink(a)

Next ==
  \/ Tick
  \/ \E a \in Procs : ApiAcquire(a)
  \/ \E a \in Procs : ApiAcquireError(a)
  \/ \E a \in Procs : ApiRelease(a)
  \/ \E a \in Procs : ApiIsLocked(a)
  \/ \E a \in Procs : ApiCleanup(a)
  \/ \E a \in Procs : ApiCrash(a)
  \/ \E a \in Procs : ApiRestart(a)
  \/ \E a \in Procs : LockStep(a) /\ UNCHANGED hookVars

Spec == Init /\ [][Next]_vars

\* ------------------------------------------------------- who holds a lock
\* the actor's acquire of name n returned True and it has not released
Holds(a, n) ==
  /\ lname[a] = n
  /\ fd[a] # NoInode
  /\ fdLocked[a]
  /\ pc[a] \notin {"acq_flock", "acq_write"}

Holders(n) == {a \in Actors : Holds(a, n)}

\* the processes whose acquire of name n has taken the flock, returned or not
Owners(n) == {a \in Actors : lname[a] = n /\ fd[a] # NoInode /\ fdLocked[a]}

\* C1: for every agent name at most one process holds the lock, under any
\* interleaving of acquire, release, is_locked and cleanup_stale_locks.
C1_MutualExclusion ==
  \A n \in Names : Cardinality(Holders(n)) <= 1

\* C6: cleanup_stale_locks never deletes a record whose lock has a live holder
\* at the moment of deletion, nor a record whose age does not exceed
\* max_age_seconds: whenever its unlink is the next step, the file the path
\* names is unheld and its record is older than max_age_seconds.
C6_CleanupDeletesOnlyStale ==
  \A a \in Actors :
    (pc[a] = "cl_unlink" /\ path[pname[a]] # NoInode) =>
      LET i == path[pname[a]] IN
      /\ ~\E b \in Actors : Holds(b, pname[a]) /\ fd[b] = i
      /\ Len(content[i].lines) >= 2 => now - content[i].lines[2] > MaxAgeOf(a)

\* C8: is_locked returns True if and only if some live process holds the lock
\* for that name: at its flock probe the answer it is about to give equals
\* whether some acquire owns the flock for the name, and a name without a record
\* (for which is_locked answers False) has no owner.
C8_IsLockedExact ==
  /\ \A a \in Actors :
       pc[a] = "il_flock" =>
         (FlockHeldByOther(a, tmp[a], TRUE) <=> Owners(pname[a]) # {})
  /\ \A n \in Names : path[n] = NoInode => Owners(n) = {}

\* the steps of is_locked by actor a
IsLockedStep(a) ==
  \/ pc[a] \in {"il_flock", "il_unlock"} /\ pc'[a] \notin {pc[a], "dead"}
  \/ pc[a] # "il_flock" /\ pc'[a] = "il_flock"

\* C9: is_locked undoes its probe: none of its steps creates, deletes or
\* modifies a lock record or changes a holder's ownership, and when it has
\* returned the caller holds no lock through the probe.
C9_IsLockedFrame ==
  [][\A a \in Actors :
       IsLockedStep(a) =>
         /\ path' = path
         /\ \A i \in Inodes :
              ((\E n \in Names : path[n] = i) \/ (\E b \in Actors : fd[b] = i))
                 => content'[i] = content[i]
         /\ fd' = fd
         /\ fdLocked' = fdLocked
         /\ \A b \in Actors \ {a} : tmp'[b] = tmp[b] /\ tmpLocked'[b] = tmpLocked[b]
         /\ pc'[a] \notin {"il_flock", "il_unlock"} =>
              tmp'[a] = NoInode /\ ~tmpLocked'[a]]_vars

\* is_locked took the probe lock on a record while another process owns a lock
C9_Witness ==
  \E a, b \in Procs :
    /\ pc[a] = "il_unlock"
    /\ tmpLocked[a]
    /\ content[tmp[a]].lines # NoLines
    /\ fd[b] # NoInode /\ fdLocked[b] /\ pc[b] = "idle"

\* ---------------------------------------------- cleanup with nothing else
\* cleanup_stale_locks run by a process of its own while no other process is
\* inside a lock operation and time stands still; the other processes acquire,
\* release and crash between two runs.
QuietIdle == pc[Cleaner] = "idle"

QuietStart ==
  /\ QuietIdle
  /\ \A a \in Procs : pc[a] = "idle"
  /\ ClGlob(Cleaner)
  /\ UNCHANGED hookVars

\* cleanup_stale_locks has returned; the next run may start
QuietDone ==
  /\ pc[Cleaner] = "cl_done"
  /\ pc' = [pc EXCEPT ![Cleaner] = "idle"]
  /\ UNCHANGED <<fsVars, lname, fd, fdLocked, pname, tmp, tmpLocked, todo, hookVars, otherVars>>

QuietNext ==
  \/ QuietIdle /\ Tick
  \/ QuietIdle /\ \E a \in Procs : ApiAcquire(a)
  \/ QuietIdle /\ \E a \in Procs : ApiRelease(a)
  \/ QuietIdle /\ \E a \in Procs : ApiCrash(a)
  \/ QuietIdle /\ \E a \in Procs : ApiRestart(a)
  \/ QuietIdle /\ \E a \in Procs : AcqFlock(a) /\ UNCHANGED hookVars
  \/ QuietIdle /\ \E a \in Procs : AcqWrite(a) /\ UNCHANGED hookVars
  \/ QuietIdle /\ \E a \in Procs : RelUnlink(a) /\ UNCHANGED hookVars
  \/ QuietStart
  \/ ClOpen(Cleaner) /\ UNCHANGED hookVars
  \/ ClFlock(Cleaner) /\ UNCHANGED hookVars
  \/ ClUnlock(Cleaner) /\ UNCHANGED hookVars
  \/ ClRead(Cleaner) /\ UNCHANGED hookVars
  \/ ClUnlink(Cleaner) /\ UNCHANGED hookVars
  \/ QuietDone

QuietSpec == Init /\ [][QuietNext]_vars

\* C7: after cleanup_stale_locks(max_age) has run with no concurrent lock
\* activity, no record is left that has no live holder and whose lock was
\* acquired more than max_age seconds ago.
C7_StaleRemoved ==
  pc[Cleaner] = "cl_done" =>
    \A n \in Names :
      path[n] # NoInode =>
        \/ \E b \in Actors : Holds(b, n) /\ fd[b] = path[n]
        \/ content[path[n]].acquiredAt = <<>>
        \/ now - content[path[n]].acquiredAt[1] <= MaxAgeOf(Cleaner)

\* ----------------------------------------------- the self-test, concurrent
\* agent_lock.py __main__: lock1 and lock2 contend for one name, the winner
\* releases, then the loser acquires and releases. The two acquire calls of the
\* first round are interleaved here, as two processes would run them.
TestAcquire(a) ==
  /\ pc[a] \in {"t_start", "t_lost"}
  /\ pc[a] = "t_lost" => \E b \in Testers : pc[b] = "t_released"
  /\ OpenW(a, TestAgent)
  /\ UNCHANGED hookVars

\* release() of the lock that was acquired, once the other acquire has returned
TestRelease(a) ==
  /\ pc[a] = "t_won"
  /\ \A b \in Testers \ {a} : pc[b] \in {"t_lost", "t_released"}
  /\ RelUnlockClose(a)
  /\ UNCHANGED hookVars

\* both locks were acquired and released: the test starts over
TestRestart ==
  /\ \A a \in Testers : pc[a] = "t_released"
  /\ pc' = [a \in Actors |-> IF a \in Testers THEN "t_start" ELSE pc[a]]
  /\ UNCHANGED <<fsVars, lname, fd, fdLocked, pname, tmp, tmpLocked, todo, hookVars, otherVars>>

\* the lock directory before the test: no file, or the file a crashed holder
\* left behind (truncated by a later attempt, or with its record)
TestInit ==
  \/ Init
  \/ \E lines \in {NoLines, <<1, 0>>} :
       InitWith([n \in Names |-> IF n = TestAgent THEN 1 ELSE NoInode],
                [i \in Inodes |->
                   IF i = 1 THEN [lines |-> lines, acquiredAt |-> <<0>>] ELSE EmptyRec])

TestNext ==
  \/ Tick
  \/ \E a \in Testers : TestAcquire(a)
  \/ \E a \in Testers : TestRelease(a)
  \/ \E a \in Testers : AcqFlock(a) /\ UNCHANGED hookVars
  \/ \E a \in Testers : AcqWrite(a) /\ UNCHANGED hookVars
  \/ \E a \in Testers : RelUnlink(a) /\ UNCHANGED hookVars
  \/ TestRestart

TestSpec == TestInit /\ [][TestNext]_vars

Main(h) == <<h, "main">>
Worker(h, n) == <<h, n>>
HookOf(a) == a[1]
AgentOf(w) == w[2]

\* agents_to_run of the Stop hook (of "john", "george", "pete", "marie"; their
\* locked wrappers are the same code) and the agent it always adds
STOP_AGENTS == {"john"}
GILFOYLE == "gilfoyle"
\* ALLOWED_AGENTS of the UserPromptSubmit hook
ALLOWED_AGENTS == {"paul", "ringo"}
\* the agents a Conductor decision can name
DecisionAgents == {"john", "paul", "ringo"}

\* the order in which the Stop hook probes, and in which the hooks submit
StopProbeOrder == <<"john", "gilfoyle">>
StopSubmitOrder == <<"gilfoyle", "john">>
MainOrder == <<"john", "paul", "ringo">>

InOrder(order, S) == SelectSeq(order, LAMBDA n : n \in S)

WorkersOf(h) == {w \in Workers : HookOf(w) = h}

\* a pool of one thread
OneWorker(h) == 1

\* ThreadPoolExecutor(max_workers=...)
MaxWorkers(h) ==
  IF kind[h] = "Stop" THEN Cardinality(agents[h]) + 1 ELSE Cardinality(agents[h])

\* a pool thread is busy with a work item
Busy(w) == pc[w] \notin {"w_idle", "w_queued", "w_end"}

\* Stop hook: orchestrator = SmartOrchestrator(cwd); agents_to_run = [...];
\* cleanup_stale_locks(max_age_seconds=600) starts
StopStart(h) ==
  /\ pc[Main(h)] = "h_idle"
  /\ kind' = [kind EXCEPT ![h] = "Stop"]
  /\ agents' = [agents EXCEPT ![h] = STOP_AGENTS]
  /\ toProbe' = [toProbe EXCEPT ![h] = StopProbeOrder]
  /\ ClGlob(Main(h))
  /\ UNCHANGED <<observed, futures, outcome, wres, saved>>

\* UserPromptSubmit hook: decision = run_conductor(...); not should_run ends
\* the hook, otherwise agents_to_run is filtered by ALLOWED_AGENTS
MainStart(h) ==
  /\ pc[Main(h)] = "h_idle"
  /\ kind' = [kind EXCEPT ![h] = "UserPromptSubmit"]
  /\ \E shouldRun \in BOOLEAN, decided \in SUBSET DecisionAgents :
       IF shouldRun
         THEN /\ agents' = [agents EXCEPT ![h] = decided \cap ALLOWED_AGENTS]
              /\ toProbe' = [toProbe EXCEPT ![h] = InOrder(MainOrder, decided \cap ALLOWED_AGENTS)]
              /\ pc' = [pc EXCEPT ![Main(h)] = "m_check"]
         ELSE /\ pc' = [pc EXCEPT ![Main(h)] = "h_done"]
              /\ UNCHANGED <<agents, toProbe>>
  /\ UNCHANGED <<fsVars, lname, fd, fdLocked, pname, tmp, tmpLocked, todo,
                 observed, futures, outcome, wres, saved, otherVars>>

\* for agent in ...: if AgentLock(agent).is_locked():
HookProbe(h) ==
  /\ pc[Main(h)] = "m_check"
  /\ toProbe[h] # <<>>
  /\ IlOpen(Main(h), Head(toProbe[h]))
  /\ UNCHANGED hookVars

\* skipped.append(agent) / running.append(agent), next agent
HookProbed(h) ==
  /\ pc[Main(h)] \in {"m_locked", "m_free"}
  /\ observed' = [observed EXCEPT ![h] =
                    IF pc[Main(h)] = "m_locked" THEN @ \cup {Head(toProbe[h])} ELSE @]
  /\ toProbe' = [toProbe EXCEPT ![h] = Tail(@)]
  /\ pc' = [pc EXCEPT ![Main(h)] = "m_check"]
  /\ UNCHANGED <<fsVars, lname, fd, fdLocked, pname, tmp, tmpLocked, todo,
                 kind, agents, futures, outcome, wres, saved, otherVars>>

\* Stop hook: agents_to_run = [a for a in agents_to_run if a not in skipped];
\* the executor is created and the callables are submitted
StopSubmit(h) ==
  LET run == agents[h] \ observed[h]
      sub == run \cup ({GILFOYLE} \ observed[h])
  IN
  /\ pc[Main(h)] = "m_check"
  /\ kind[h] = "Stop"
  /\ toProbe[h] = <<>>
  /\ agents' = [agents EXCEPT ![h] = run]
  /\ futures' = [futures EXCEPT ![h] = InOrder(StopSubmitOrder, sub)]
  /\ pc' = [a \in Actors |->
              IF a = Main(h) THEN "m_collect"
              ELSE IF a \in WorkersOf(h) /\ AgentOf(a) \in sub THEN "w_queued"
              ELSE pc[a]]
  /\ UNCHANGED <<fsVars, lname, fd, fdLocked, pname, tmp, tmpLocked, todo,
                 kind, toProbe, observed, outcome, wres, saved, otherVars>>

\* UserPromptSubmit hook: ThreadPoolExecutor(max_workers=len(agents_to_run))
\* raises ValueError for an empty list (caught by the outer except); otherwise
\* every agent of agents_to_run is submitted, locked or not
MainSubmit(h) ==
  /\ pc[Main(h)] = "m_check"
  /\ kind[h] = "UserPromptSubmit"
  /\ toProbe[h] = <<>>
  /\ IF agents[h] = {}
       THEN /\ pc' = [pc EXCEPT ![Main(h)] = "h_done"]
            /\ UNCHANGED futures
       ELSE /\ futures' = [futures EXCEPT ![h] = InOrder(MainOrder, agents[h])]
            /\ pc' = [a \in Actors |->
                        IF a = Main(h) THEN "m_collect"
                        ELSE IF a \in WorkersOf(h) /\ AgentOf(a) \in agents[h] THEN "w_queued"
                        ELSE pc[a]]
  /\ UNCHANGED <<fsVars, lname, fd, fdLocked, pname, tmp, tmpLocked, todo,
                 kind, agents, toProbe, observed, outcome, wres, saved, otherVars>>

\* a pool thread takes the work item; the pool has at most max_workers threads
PoolHasThread(w) ==
  Cardinality({v \in WorkersOf(HookOf(w)) : Busy(v)}) < MaxWorkers(HookOf(w))

\* run_*_locked: with agent_lock(name, skip_if_locked=True): lock.acquire()
LockedStart(w) ==
  /\ pc[w] = "w_queued"
  /\ kind[HookOf(w)] = "Stop"
  /\ PoolHasThread(w)
  /\ OpenW(w, AgentOf(w))
  /\ UNCHANGED hookVars

LockedStartError(w) ==
  /\ pc[w] = "w_queued"
  /\ kind[HookOf(w)] = "Stop"
  /\ PoolHasThread(w)
  /\ OpenWError(w, AgentOf(w))
  /\ UNCHANGED hookVars

\* else: yield None; the wrapper returns None
LockedSkip(w) ==
  /\ pc[w] = "w_skip"
  /\ wres' = [wres EXCEPT ![w] = "skipped"]
  /\ pc' = [pc EXCEPT ![w] = "w_end"]
  /\ UNCHANGED <<fsVars, lname, fd, fdLocked, pname, tmp, tmpLocked, todo,
                 kind, agents, toProbe, observed, futures, outcome, saved, otherVars>>

\* UserPromptSubmit hook: executor.submit(run_paul, ...): the worker itself
PlainStart(w) ==
  /\ pc[w] = "w_queued"
  /\ kind[HookOf(w)] = "UserPromptSubmit"
  /\ PoolHasThread(w)
  /\ pc' = [pc EXCEPT ![w] = "w_run"]
  /\ UNCHANGED <<fsVars, lname, fd, fdLocked, pname, tmp, tmpLocked, todo, hookVars, otherVars>>

\* how a worker can end: run_claude returns the output, "[Error: ...]" for a
\* non-zero exit or "[Failed: ...]" for a timeout; reading the prompt file can
\* raise. run_gilfoyle catches everything.
WorkerEnds(n) ==
  IF n = GILFOYLE THEN {"ok", "error", "timeout"} ELSE {"ok", "error", "timeout", "raised"}

\* the worker ends inside the with block of a locked wrapper
LockedWorkerEnd(w) ==
  /\ pc[w] = "w_run"
  /\ kind[HookOf(w)] = "Stop"
  /\ \E e \in WorkerEnds(AgentOf(w)) : wres' = [wres EXCEPT ![w] = e]
  /\ pc' = [pc EXCEPT ![w] = "w_release"]
  /\ UNCHANGED <<fsVars, lname, fd, fdLocked, pname, tmp, tmpLocked, todo,
                 kind, agents, toProbe, observed, futures, outcome, saved, otherVars>>

\* a wrapper that returns without releasing
LockedNoRelease(w) ==
  /\ pc[w] = "w_release"
  /\ pc' = [pc EXCEPT ![w] = "w_end"]
  /\ UNCHANGED <<fsVars, lname, fd, fdLocked, pname, tmp, tmpLocked, todo, hookVars, otherVars>>

\* finally: lock.release()
LockedRelease(w) ==
  /\ pc[w] = "w_release"
  /\ RelUnlockClose(w)
  /\ UNCHANGED hookVars

\* the worker ends in a pool thread of the UserPromptSubmit hook
PlainWorkerEnd(w) ==
  /\ pc[w] = "w_run"
  /\ kind[HookOf(w)] = "UserPromptSubmit"
  /\ \E e \in WorkerEnds(AgentOf(w)) : wres' = [wres EXCEPT ![w] = e]
  /\ pc' = [pc EXCEPT ![w] = "w_end"]
  /\ UNCHANGED <<fsVars, lname, fd, fdLocked, pname, tmp, tmpLocked, todo,
                 kind, agents, toProbe, observed, futures, outcome, saved, otherVars>>

\* the diagnostic the collection loop prints for a finished future
Diagnostic(k, e) ==
  IF e = "raised" THEN "failed"
  ELSE IF k = "Stop" /\ e = "skipped" THEN "locked"
  ELSE "completed"

\* for agent_name, future in futures.items(): future.result(timeout=timeout + 5)
Collect(h) ==
  /\ pc[Main(h)] = "m_collect"
  /\ futures[h] # <<>>
  /\ LET w == Worker(h, Head(futures[h])) IN
       /\ pc[w] = "w_end"
       /\ outcome' = [outcome EXCEPT ![w] = Diagnostic(kind[h], wres[w])]
  /\ futures' = [futures EXCEPT ![h] = Tail(@)]
  /\ UNCHANGED <<fsVars, lockVars, kind, agents, toProbe, observed, wres, saved, otherVars>>

\* future.result raises TimeoutError while the callable is still running
CollectTimeout(h) ==
  /\ pc[Main(h)] = "m_collect"
  /\ futures[h] # <<>>
  /\ LET w == Worker(h, Head(futures[h])) IN
       /\ pc[w] # "w_end"
       /\ outcome' = [outcome EXCEPT ![w] = "failed"]
  /\ futures' = [futures EXCEPT ![h] = Tail(@)]
  /\ UNCHANGED <<fsVars, lockVars, kind, agents, toProbe, observed, wres, saved, otherVars>>

\* leaving the with block: executor.shutdown(wait=True). The Stop hook goes on
\* to update its caches; the UserPromptSubmit hook builds its report and ends.
Join(h) ==
  /\ pc[Main(h)] = "m_collect"
  /\ futures[h] = <<>>
  /\ \A w \in WorkersOf(h) : pc[w] \in {"w_idle", "w_end"}
  /\ pc' = [pc EXCEPT ![Main(h)] = IF kind[h] = "Stop" THEN "m_save" ELSE "h_done"]
  /\ UNCHANGED <<fsVars, lname, fd, fdLocked, pname, tmp, tmpLocked, todo, hookVars, otherVars>>

\* the items of the orchestrator cache and the file-hash cache
LAST_RUN == "last_run"
LAST_AGENTS == "last_agents"
FILE_HASHES == "file_hashes"
CacheItems == {LAST_RUN, LAST_AGENTS, FILE_HASHES}

\* Stop hook: orchestrator.cache["last_run"] = time.time();
\* orchestrator._save_cache(); orchestrator._save_file_hashes()
SaveCaches(h) ==
  /\ pc[Main(h)] = "m_save"
  /\ saved' = [saved EXCEPT ![h] = {LAST_RUN, FILE_HASHES}]
  /\ pc' = [pc EXCEPT ![Main(h)] = "h_done"]
  /\ UNCHANGED <<fsVars, lname, fd, fdLocked, pname, tmp, tmpLocked, todo,
                 kind, agents, toProbe, observed, futures, outcome, wres, otherVars>>

\* the host starts the hook again, as a new process
HookAgain(h) ==
  /\ pc[Main(h)] = "h_done"
  /\ pc' = [a \in Actors |->
              IF a = Main(h) THEN "h_idle" ELSE IF a \in WorkersOf(h) THEN "w_idle" ELSE pc[a]]
  /\ kind' = [kind EXCEPT ![h] = "none"]
  /\ agents' = [agents EXCEPT ![h] = {}]
  /\ observed' = [observed EXCEPT ![h] = {}]
  /\ outcome' = [w \in Workers |-> IF w \in WorkersOf(h) THEN "none" ELSE outcome[w]]
  /\ wres' = [w \in Workers |-> IF w \in WorkersOf(h) THEN "none" ELSE wres[w]]
  /\ saved' = [saved EXCEPT ![h] = {}]
  /\ UNCHANGED <<fsVars, lname, fd, fdLocked, pname, tmp, tmpLocked, todo, toProbe, futures,
               otherVars>>

\* One invocation of either hook, beside a process that takes and releases the
\* lock of an agent of the Stop hook (the locked wrapper of another invocation).
Invocation == CHOOSE h \in Hooks : TRUE
Contender == <<1, "api">>
HookThreads == {Main(Invocation)} \cup WorkersOf(Invocation)

HookNext ==
  \/ LongPause
  \/ StopStart(Invocation)
  \/ MainStart(Invocation)
  \/ HookProbe(Invocation)
  \/ HookProbed(Invocation)
  \/ StopSubmit(Invocation)
  \/ MainSubmit(Invocation)
  \/ \E w \in WorkersOf(Invocation) : LockedStart(w)
  \/ \E w \in WorkersOf(Invocation) : LockedStartError(w)
  \/ \E w \in WorkersOf(Invocation) : LockedSkip(w)
  \/ \E w \in WorkersOf(Invocation) : PlainStart(w)
  \/ \E w \in WorkersOf(Invocation) : LockedWorkerEnd(w)
  \/ \E w \in WorkersOf(Invocation) : LockedRelease(w)
  \/ \E w \in WorkersOf(Invocation) : PlainWorkerEnd(w)
  \/ Collect(Invocation)
  \/ CollectTimeout(Invocation)
  \/ Join(Invocation)
  \/ SaveCaches(Invocation)
  \/ HookAgain(Invocation)
  \/ ApiAcquire(Contender)
  \/ ApiRelease(Contender)
  \/ \E a \in HookThreads \cup {Contender} : LockStep(a) /\ UNCHANGED hookVars

HookSpec == Init /\ [][HookNext]_vars

\* Concurrent invocations of the UserPromptSubmit hook. No code of the
\* repository creates the lock file of one of its agents, so is_locked answers
\* at its first test.
MainNext ==
  \/ \E h \in Hooks : MainStart(h)
  \/ \E h \in Hooks : HookProbe(h)
  \/ \E h \in Hooks : HookProbed(h)
  \/ \E h \in Hooks : MainSubmit(h)
  \/ \E w \in Workers : PlainStart(w)
  \/ \E w \in Workers : PlainWorkerEnd(w)
  \/ \E h \in Hooks : Collect(h)
  \/ \E h \in Hooks : CollectTimeout(h)
  \/ \E h \in Hooks : Join(h)
  \/ \E h \in Hooks : HookAgain(h)

MainSpec == Init /\ [][MainNext]_vars

\* One invocation of the UserPromptSubmit hook, beside a process that takes and
\* releases the lock of one of its agents through AgentLock.
PAUL == "paul"

\* lock = AgentLock("paul"); lock.acquire()
PaulAcquire ==
  /\ pc[Contender] = "idle"
  /\ OpenW(Contender, PAUL)
  /\ UNCHANGED hookVars

PromptNext ==
  \/ MainStart(Invocation)
  \/ HookProbe(Invocation)
  \/ HookProbed(Invocation)
  \/ MainSubmit(Invocation)
  \/ \E w \in WorkersOf(Invocation) : PlainStart(w)
  \/ \E w \in WorkersOf(Invocation) : PlainWorkerEnd(w)
  \/ Collect(Invocation)
  \/ CollectTimeout(Invocation)
  \/ Join(Invocation)
  \/ HookAgain(Invocation)
  \/ PaulAcquire
  \/ ApiRelease(Contender)
  \/ AcqFlock(Contender) /\ UNCHANGED hookVars
  \/ AcqWrite(Contender) /\ UNCHANGED hookVars
  \/ RelUnlink(Contender) /\ UNCHANGED hookVars
  \/ IlFlock(Main(Invocation)) /\ UNCHANGED hookVars
  \/ IlUnlock(Main(Invocation)) /\ UNCHANGED hookVars

PromptSpec == Init /\ [][PromptNext]_vars

\* the thread runs its agent's worker
Running(w) == pc[w] \in {"w_run", "w_release"} /\ wres[w] = "none"

\* C3: across all concurrently executing hook invocations at most one instance
\* of a given agent's worker is running at any time, for every agent name.
C3_OneInstancePerAgent ==
  \A n \in Names : Cardinality({w \in Workers : AgentOf(w) = n /\ Running(w)}) <= 1

\* C4: within one invocation a worker is never invoked for an agent whose lock
\* the invocation did not acquire: not when it observed the lock as held, and in
\* a locked wrapper only while the wrapper holds the lock.
C4_FailClosed ==
  \A w \in Workers :
    Running(w) =>
      /\ AgentOf(w) \notin observed[HookOf(w)]
      /\ kind[HookOf(w)] = "Stop" => Holds(w, AgentOf(w))

\* C5: in a locked wrapper the acquire has completed while the worker runs, the
\* lock is still held when the worker ends, whichever way it ends, and a
\* wrapper that has not started or has returned holds no lock.
C5_LockBracketsWorker ==
  \A w \in Workers :
    kind[HookOf(w)] = "Stop" =>
      /\ pc[w] \in {"w_run", "w_release"} =>
           /\ lname[w] = AgentOf(w)
           /\ fd[w] # NoInode
           /\ fdLocked[w]
      /\ pc[w] \in {"w_idle", "w_queued", "w_skip", "w_end"} =>
           /\ fd[w] = NoInode
           /\ ~fdLocked[w]
           /\ Owners(AgentOf(w)) \cap WorkersOf(HookOf(w)) = {}
      /\ wres[w] \in WorkerEnds(AgentOf(w)) => pc[w] \in {"w_release", "rel_unlink", "w_end"}
      /\ pc[w] \in {"acq_flock", "acq_write", "w_run"} => wres[w] = "none"

\* a locked wrapper has returned after its worker raised, while another
\* process holds the lock of that agent again
C5_Witness ==
  \E w \in Workers :
    /\ kind[HookOf(w)] = "Stop"
    /\ pc[w] = "w_end"
    /\ wres[w] = "raised"
    /\ fd[w] = NoInode
    /\ Holds(Contender, AgentOf(w))

\* the agents an invocation has submitted to its pool
Submitted(h) ==
  IF pc[Main(h)] \notin {"m_collect", "m_save", "h_done"} THEN {}
  ELSE IF kind[h] = "Stop" THEN agents[h] \cup ({GILFOYLE} \ observed[h])
  ELSE agents[h]

C11_TimeoutReportedFailed ==
  \A w \in Workers :
    (kind[HookOf(w)] = "Stop" /\ wres[w] = "timeout") =>
      /\ outcome[w] \in {"none", "failed"}
      /\ pc[w] = "w_end" => (fd[w] = NoInode /\ ~fdLocked[w])

\* C12: in a scheduler run the orchestrator cache, with the last-run timestamp
\* and the list of dispatched workers, and the file-hash cache are persisted,
\* and only after the outcomes of all dispatched workers have been collected.
C12_CachesPersistedAfterCollect ==
  \A h \in Hooks :
    /\ saved[h] # {} =>
         /\ futures[h] = <<>>
         /\ \A n \in Submitted(h) : outcome[Worker(h, n)] # "none"
    /\ (pc[Main(h)] = "h_done" /\ Submitted(h) # {}) => saved[h] = CacheItems

\* ---------------------------------------------------- the change detector
\* SmartOrchestrator.get_changed_files and _hash_file on one project root.
\* Directory entries are created and removed in the directory that holds
\* them: only a file directly under the root changes the root's mtime.
\* the walk skips hidden paths outside .claude, node_modules and __pycache__
Ignored(p) ==
  LET parts == {p[i] : i \in 1..Len(p)}
  IN  \/ (\E x \in parts : x \in DotParts) /\ ".claude" \notin parts
      \/ "node_modules" \in parts
      \/ "__pycache__" \in parts

\* hashlib.md5(f.read()).hexdigest(): distinct digests for the two contents
Md5(d) == IF d = "v1" THEN "md5(v1)" ELSE "md5(v2)"

\* _hash_file: the digest of the content; any exception yields "error"
HashFile(f) == IF f.exists /\ f.readable THEN Md5(f.data) ELSE HASH_ERROR

\* the files the walk adds to changed
ChangedFiles ==
  {p \in Paths : /\ tree[p].exists
                  /\ ~Ignored(p)
                  /\ (fileHashes[p] = NoHash \/ fileHashes[p] # HashFile(tree[p]))}

\* the project root's mtime does not exceed the recorded one
FastPath == rootMtime <= lastScanMtime

\* the history of returned sets after one more call returned r
Returns(r) == IF Len(returned) < 2 THEN Append(returned, r) ELSE <<returned[2], r>>

\* a scan that records neither the root's mtime nor the hashes it computed
GetChangedFilesForgetful ==
  /\ returned' = Returns(IF FastPath THEN {} ELSE ChangedFiles)
  /\ UNCHANGED <<tree, rootMtime, lastScanMtime, fileHashes, fsVars, lockVars, hookVars,
               graphVars, laterVars>>

\* a scan that drops the cached hash of every file the walk did not meet
GetChangedFilesPurging ==
  /\ IF FastPath
       THEN /\ returned' = Returns({})
            /\ UNCHANGED <<lastScanMtime, fileHashes>>
       ELSE /\ lastScanMtime' = rootMtime
            /\ fileHashes' = [p \in Paths |-> IF p \in ChangedFiles
                                                THEN HashFile(tree[p])
                                                ELSE IF tree[p].exists THEN fileHashes[p]
                                                ELSE NoHash]
            /\ returned' = Returns(ChangedFiles)
  /\ UNCHANGED <<tree, rootMtime, fsVars, lockVars, hookVars, graphVars, laterVars>>

\* one call of get_changed_files
GetChangedFiles ==
  /\ IF FastPath
       THEN /\ returned' = Returns({})
            /\ UNCHANGED <<lastScanMtime, fileHashes>>
       ELSE /\ lastScanMtime' = rootMtime
            /\ fileHashes' = [p \in Paths |-> IF p \in ChangedFiles
                                                THEN HashFile(tree[p])
                                                ELSE fileHashes[p]]
            /\ returned' = Returns(ChangedFiles)
  /\ UNCHANGED <<tree, rootMtime, fsVars, lockVars, hookVars, graphVars, laterVars>>

\* somebody changes the tree: file p becomes f; when this changes an entry of
\* the root directory (entry, and p lies directly under the root) the root's
\* mtime advances
Modify(p, f, entry) ==
  /\ tree' = [tree EXCEPT ![p] = f]
  /\ IF entry /\ Len(p) = 1
       THEN rootMtime < MaxMtime /\ rootMtime' = rootMtime + 1
       ELSE UNCHANGED rootMtime
  /\ returned' = <<>>
  /\ UNCHANGED <<lastScanMtime, fileHashes, fsVars, lockVars, hookVars, graphVars, laterVars>>

CreateFile(p, d) ==
  /\ ~tree[p].exists
  /\ Modify(p, [exists |-> TRUE, data |-> d, readable |-> TRUE], TRUE)

\* the file is rewritten in place: no directory changes
EditFile(p, d) ==
  /\ tree[p].exists
  /\ tree[p].data # d
  /\ Modify(p, [tree[p] EXCEPT !.data = d], FALSE)

DeleteFile(p) ==
  /\ tree[p].exists
  /\ Modify(p, Absent, TRUE)

\* the file's permissions change: it becomes unreadable, or readable again
Chmod(p) ==
  /\ tree[p].exists
  /\ Modify(p, [tree[p] EXCEPT !.readable = ~tree[p].readable], FALSE)

\* any tree, with the caches a previous run may have left
ScanInit ==
  /\ IdleWith([n \in Names |-> NoInode], [i \in Inodes |-> EmptyRec])
  /\ tree \in [Paths -> FileStates]
  /\ rootMtime = 1
  /\ lastScanMtime \in {0, rootMtime}
  /\ fileHashes \in {h \in [Paths -> {NoHash, HASH_ERROR, "md5(v1)", "md5(v2)"}] :
                        \A p \in Paths : Ignored(p) => h[p] = NoHash}
  /\ returned = <<>>
  /\ NoGraph
  /\ NoRisk
  /\ NoStores
  /\ NoPipe
  /\ NoWait
  /\ NoLast

ScanNext ==
  \/ \E p \in Paths, d \in Contents : CreateFile(p, d)
  \/ \E p \in Paths, d \in Contents : EditFile(p, d)
  \/ \E p \in Paths : DeleteFile(p)
  \/ \E p \in Paths : Chmod(p)
  \/ GetChangedFiles

ScanSpec == ScanInit /\ [][ScanNext]_vars

\* C13: the second of two calls of get_changed_files with no modification of
\* the tree between them returns the empty set.
C13_SecondCallEmpty == Len(returned) = 2 => returned[2] = {}

C13_Witness == Len(returned) = 2 /\ returned[1] # {} /\ returned[2] = {}

\* C14: every call of get_changed_files reports each readable non-ignored file
\* whose path has no entry in the hash cache, or whose current fingerprint
\* differs from the cached one, whatever creations, in-place edits and
\* deletions preceded the call.
C14_ReportsEveryDifference ==
  [][GetChangedFiles =>
       \A p \in Paths :
         ( /\ tree[p].exists /\ tree[p].readable /\ ~Ignored(p)
           /\ (fileHashes[p] = NoHash \/ fileHashes[p] # Md5(tree[p].data)) )
         => p \in returned'[Len(returned')]]_vars

\* C15: once a call of get_changed_files has completed, and until the tree is
\* modified again, the hash cache holds for every existing readable
\* non-ignored file an entry equal to the file's current fingerprint.
C15_SnapshotComplete ==
  Len(returned) > 0 =>
    \A p \in Paths :
      (tree[p].exists /\ tree[p].readable /\ ~Ignored(p)) =>
        fileHashes[p] = Md5(tree[p].data)

\* C16: every call of get_changed_files that walks the tree reports each
\* non-ignored file it cannot read, also when an earlier walk could not read
\* it either.
C16_UnreadableReported ==
  [][(GetChangedFiles /\ ~FastPath) =>
       \A p \in Paths :
         (tree[p].exists /\ ~tree[p].readable /\ ~Ignored(p)) =>
           p \in returned'[Len(returned')]]_vars

\* ------------------------------------------ BuildHealthMonitor on the graph
\* what the parser can return for file f: the defining file holds up to
\* MaxDefs definitions (two may share a name: methods of two classes), the
\* other file imports and calls
Extractions(f) ==
  IF f = DEFINER
    THEN [imports : {{}},
          definitions : UNION {[1..k -> DefItems] : k \in 0..MaxDefs},
          calls : {{}}]
    ELSE [imports : {{}} \cup {{i} : i \in ImportIds},
          definitions : {<<>>},
          calls : SUBSET DefNames]

NamesOf(defs) == {defs[i].name : i \in 1..Len(defs)}

\* {d['name']: d.get('signature', '') for d in defs}[n]: the last definition
\* of a name is the one the dict keeps
SigOf(defs, n) ==
  LET at == {i \in 1..Len(defs) : defs[i].name = n}
  IN  defs[CHOOSE i \in at : \A j \in at : j <= i].signature

\* detect_signature_changes(f): the names of the new definitions, in the order
\* of their first definition, that the previous entry has with another
\* signature
DetectSignatureChanges(f) ==
  IF graph[f] = <<>>
    THEN <<>>
    ELSE LET old == graph[f][1].definitions
             new == source[f].definitions
             Changed(i) == /\ \A j \in 1..(i - 1) : new[j].name # new[i].name
                           /\ new[i].name \in NamesOf(old)
                           /\ SigOf(old, new[i].name) # SigOf(new, new[i].name)
             at == SelectSeq([i \in 1..Len(new) |-> i], Changed)
         IN  [k \in 1..Len(at) |-> [name |-> new[at[k]].name,
                                     old |-> SigOf(old, new[at[k]].name),
                                     new |-> SigOf(new, new[at[k]].name)]]

\* the entry analyze_dependencies stores for f, with signature changes sc
Entry(f, sc) ==
  [imports |-> source[f].imports, definitions |-> source[f].definitions,
   calls |-> source[f].calls, language |-> "python", signature_changes |-> sc]

\* the file was analysed before and its text did not change since
Unchanged(f) ==
  /\ graph[f] # <<>>
  /\ graph[f][1].imports = source[f].imports
  /\ graph[f][1].definitions = source[f].definitions
  /\ graph[f][1].calls = source[f].calls

\* an analysis that appends the new signature changes to those of the entry
AnalyzeKeepingChanges(f) ==
  /\ graph' = [graph EXCEPT ![f] =
                 <<Entry(f, (IF graph[f] = <<>> THEN <<>> ELSE graph[f][1].signature_changes)
                            \o DetectSignatureChanges(f))>>]
  /\ replaced' = (Unchanged(f) /\ graph[f][1].signature_changes # <<>>)
  /\ UNCHANGED <<source, impacts, scanVars, laterVars, fsVars, lockVars, hookVars>>

\* analyze_dependencies(f)
AnalyzeDependencies(f) ==
  /\ graph' = [graph EXCEPT ![f] = <<Entry(f, DetectSignatureChanges(f))>>]
  /\ replaced' = (Unchanged(f) /\ graph[f][1].signature_changes # <<>>)
  /\ UNCHANGED <<source, impacts, scanVars, laterVars, fsVars, lockVars, hookVars>>

\* the characters of the file paths and the import identifiers
Text(s) ==
  CASE s = "core.py" -> <<"c", "o", "r", "e", ".", "p", "y">>
    [] s = "app.py" -> <<"a", "p", "p", ".", "p", "y">>
    [] s = "ab.py" -> <<"a", "b", ".", "p", "y">>
    [] s = "b.py" -> <<"b", ".", "p", "y">>
    [] s = "c.py" -> <<"c", ".", "p", "y">>
    [] s = "Core.utils" -> <<"C", "o", "r", "e", ".", "u", "t", "i", "l", "s">>
    [] s = "os" -> <<"o", "s">>
    [] s = "ab" -> <<"a", "b">>
    [] s = "b" -> <<"b">>
    [] s = "c" -> <<"c">>
    [] s = "structure" -> <<"s", "t", "r", "u", "c", "t", "u", "r", "e">>
    [] s = "files" -> <<"f", "i", "l", "e", "s">>
    [] s = "previous" -> <<"p", "r", "e", "v", "i", "o", "u", "s">>
    [] s = "we discussed" -> <<"w", "e", " ", "d", "i", "s", "c", "u", "s", "s", "e", "d">>
    [] s = "why" -> <<"w", "h", "y">>
    [] s = "explain" -> <<"e", "x", "p", "l", "a", "i", "n">>
    [] s = "code" -> <<"c", "o", "d", "e">>
    [] s = "implement" -> <<"i", "m", "p", "l", "e", "m", "e", "n", "t">>

\* s in t, for two strings
IsIn(s, t) == \E i \in 0..(Len(t) - Len(s)) : SubSeq(t, i + 1, i + Len(s)) = s

\* str.lower(), for the letters of the model
Lower(s) == [i \in 1..Len(s) |-> IF s[i] = "C" THEN "c" ELSE s[i]]

\* Path(p).stem, for a path without directories: the name up to its last dot
Stem(p) ==
  LET dots == {i \in 2..Len(p) : p[i] = "."}
  IN  IF dots = {} THEN p
      ELSE SubSeq(p, 1, (CHOOSE i \in dots : \A j \in dots : j <= i) - 1)

\* changed_basename.lower() in imp.lower()
ImportNames(imp, c) == IsIn(Lower(Stem(Text(c))), Lower(Text(imp)))

\* 'modified' in r, for a reason string r built from kind and names
ContainsModified(r) ==
  r.kind = "calls_modified" \/ "last_modified" \in r.names

\* the reasons find_impacted_files(c) collects for file f of graph g
ReasonsFor(g, c, f) ==
  LET data == g[c][1]
      names == NamesOf(data.definitions)
      sigNames == {data.signature_changes[i].name : i \in 1..Len(data.signature_changes)}
      called == names \cap g[f][1].calls
  IN  (IF \E imp \in g[f][1].imports : ImportNames(imp, c)
         THEN <<[kind |-> "imports", names |-> {}]>>
         ELSE <<>>)
      \o (IF called = {} THEN <<>>
          ELSE IF called \cap sigNames # {}
                 THEN <<[kind |-> "calls_modified", names |-> called \cap sigNames]>>
                 ELSE <<[kind |-> "calls", names |-> called]>>)

\* find_impacted_files(c): analyses c when the graph has no entry for it
FindImpactedFiles(c) ==
  LET g == IF graph[c] = <<>>
             THEN [graph EXCEPT ![c] = <<Entry(c, DetectSignatureChanges(c))>>]
             ELSE graph
      Impact(f) ==
        LET rs == ReasonsFor(g, c, f)
        IN  IF f = c \/ g[f] = <<>> \/ rs = <<>>
              THEN <<>>
              ELSE <<[reasons |-> rs,
                      severity |-> IF \E i \in 1..Len(rs) : ContainsModified(rs[i])
                                     THEN "high" ELSE "medium"]>>
  IN  /\ graph' = g
      /\ impacts' = [f \in GraphFiles |-> Impact(f)]
      /\ replaced' = FALSE
      /\ UNCHANGED <<source, scanVars, laterVars, fsVars, lockVars, hookVars>>

\* the text of f is edited between two runs; a run starts without impacts
EditSource(f, x) ==
  /\ x # source[f]
  /\ source' = [source EXCEPT ![f] = x]
  /\ impacts' = [g \in GraphFiles |-> <<>>]
  /\ replaced' = FALSE
  /\ UNCHANGED <<graph, scanVars, laterVars, fsVars, lockVars, hookVars>>

\* any two files, no dependency graph file on disk
GraphInit ==
  /\ IdleWith([n \in Names |-> NoInode], [i \in Inodes |-> EmptyRec])
  /\ NoProject
  /\ source \in {s \in [GraphFiles -> UNION {Extractions(f) : f \in GraphFiles}] :
                    \A f \in GraphFiles : s[f] \in Extractions(f)}
  /\ graph = [f \in GraphFiles |-> <<>>]
  /\ impacts = [f \in GraphFiles |-> <<>>]
  /\ replaced = FALSE
  /\ NoRisk
  /\ NoStores
  /\ NoPipe
  /\ NoWait
  /\ NoLast

GraphNext ==
  \/ \E f \in GraphFiles : \E x \in Extractions(f) : EditSource(f, x)
  \/ \E f \in GraphFiles : AnalyzeDependencies(f)
  \/ \E f \in GraphFiles : FindImpactedFiles(f)

GraphSpec == GraphInit /\ [][GraphNext]_vars

\* C17: when a file is re-analysed, the signature-change list holds exactly
\* one entry, with an old and a new signature text, for each name whose
\* definitions are as many as before and differ in signature text, and no
\* entry for a name that was added or removed or whose definitions kept
\* their signature texts.
C17_SignatureChangesExact ==
  [][\A f \in GraphFiles :
       (AnalyzeDependencies(f) /\ graph[f] # <<>>) =>
         LET old == graph[f][1].definitions
             new == source[f].definitions
             ch == graph'[f][1].signature_changes
             Count(defs, n, t) ==
               Cardinality({i \in 1..Len(defs) : defs[i].name = n /\ defs[i].signature = t})
             Texts == {d.signature : d \in DefItems}
             Total(defs, n) == Cardinality({i \in 1..Len(defs) : defs[i].name = n})
         IN  \A n \in DefNames :
               LET entries == {k \in 1..Len(ch) : ch[k].name = n}
                   same == \A t \in Texts : Count(old, n, t) = Count(new, n, t)
               IN  /\ (Total(old, n) = 0 \/ Total(new, n) = 0 \/ same) => entries = {}
                   /\ (Total(old, n) > 0 /\ Total(old, n) = Total(new, n) /\ ~same) =>
                        /\ Cardinality(entries) = 1
                        /\ \A k \in entries : /\ Count(old, n, ch[k].old) > 0
                                                 /\ Count(new, n, ch[k].new) > 0
                                                 /\ ch[k].old # ch[k].new]_vars

\* C18: after analyze_dependencies(f) the graph entry of f is the new
\* extraction with the signature changes computed against the entry it
\* replaces and nothing else of that entry: no changes when there was no
\* entry, and none when the file is re-analysed with its text unchanged.
C18_EntryReplaced ==
  [][\A f \in GraphFiles :
       AnalyzeDependencies(f) =>
         LET e == graph'[f][1]
             ch == e.signature_changes
         IN  /\ Len(graph'[f]) = 1
             /\ e.imports = source[f].imports
             /\ e.definitions = source[f].definitions
             /\ e.calls = source[f].calls
             /\ (graph[f] = <<>> \/ Unchanged(f)) => ch = <<>>
             /\ \A k \in 1..Len(ch) :
                  /\ ch[k].old = SigOf(graph[f][1].definitions, ch[k].name)
                  /\ ch[k].new = SigOf(e.definitions, ch[k].name)
                  /\ ch[k].old # ch[k].new]_vars

C18_Witness ==
  \E f \in GraphFiles : replaced /\ graph[f] # <<>> /\ Unchanged(f)
                          /\ graph[f][1].definitions # <<>>
                          /\ graph[f][1].signature_changes = <<>>

\* C19: find_impacted_files(c) returns, for every other file of the graph
\* whose call targets include a name that c defines, an entry with a calls or
\* calls_modified reason naming that name; when the name is in the current
\* signature-change list of c the reason is calls_modified and the severity
\* is high.
C19_CallersImpacted ==
  [][\A c \in GraphFiles :
       FindImpactedFiles(c) =>
         \A f \in GraphFiles \ {c} :
           graph'[f] # <<>> =>
             \A n \in NamesOf(graph'[c][1].definitions) \cap graph'[f][1].calls :
               LET sc == graph'[c][1].signature_changes
                   rs == impacts'[f][1].reasons
                   NamedBy(kinds) ==
                     UNION {rs[i].names : i \in {j \in 1..Len(rs) : rs[j].kind \in kinds}}
               IN  /\ impacts'[f] # <<>>
                   /\ n \in NamedBy({"calls", "calls_modified"})
                   /\ (\E k \in 1..Len(sc) : sc[k].name = n) =>
                        /\ n \in NamedBy({"calls_modified"})
                        /\ impacts'[f][1].severity = "high"]_vars

\* C20: an impact entry has severity high exactly when one of its reasons is
\* a calls_modified reason; any other entry has severity medium.
C20_SeverityHighIffModified ==
  \A f \in GraphFiles :
    impacts[f] # <<>> =>
      LET e == impacts[f][1]
      IN  IF \E i \in 1..Len(e.reasons) : e.reasons[i].kind = "calls_modified"
            THEN e.severity = "high"
            ELSE e.severity = "medium"

\* ------------------------------- BuildHealthMonitor: cycles and risk level
\* neighbor in filepath or Path(filepath).stem == neighbor
Provides(filepath, neighbor) ==
  IsIn(Text(neighbor), Text(filepath)) \/ Stem(Text(filepath)) = Text(neighbor)

\* the files the two loops of has_cycle(node, ...) visit, in their order
Targets(node) ==
  LET Order(S) == CHOOSE q \in [1..Cardinality(S) -> S] : {q[i] : i \in DOMAIN q} = S
      ids == Order(deps[node])
      files == Order(CycleFiles)
      RECURSIVE Cat(_)
      Cat(k) == IF k > Len(ids) THEN <<>>
                ELSE SelectSeq(files, LAMBDA f : Provides(f, ids[k])) \o Cat(k + 1)
  IN  Cat(1)

\* has_cycle, from the point where node is in visited and rec_stack and rest
\* are the files its loops still have to look at
RECURSIVE HasCycle(_, _, _)
HasCycle(rest, visited, recStack) ==
  IF rest = <<>>
    THEN [found |-> FALSE, visited |-> visited]
    ELSE LET f == Head(rest)
         IN  IF f \notin visited
               THEN LET r == HasCycle(Targets(f), visited \cup {f}, recStack \cup {f})
                    IN  IF r.found THEN r
                        ELSE HasCycle(Tail(rest), r.visited, recStack)
               ELSE IF f \in recStack
                      THEN [found |-> TRUE, visited |-> visited]
                      ELSE HasCycle(Tail(rest), visited, recStack)

\* detect_circular_dependencies(): has_cycle(node, set(), set()) for every node
Circular == \E node \in CycleFiles : HasCycle(Targets(node), {node}, {node}).found

DetectCircularDependencies ==
  /\ circular' = <<Circular>>
  /\ UNCHANGED <<deps, fileImpacts, sigChanged, risk, scanVars, graphVars,
                 storeVars, pipeVars, waitVars, texts, lastVars, fsVars, lockVars, hookVars>>

\* a risk level whose thresholds include the bounds 5 and 15
CalculateRiskLevelInclusive ==
  /\ risk' = << IF Circular \/ fileImpacts.high >= 5 \/ fileImpacts.total >= 15
                  THEN "high"
                  ELSE IF sigChanged \/ fileImpacts.high > 0 \/ fileImpacts.total >= 5
                         THEN "medium"
                         ELSE "low" >>
  /\ UNCHANGED <<deps, fileImpacts, sigChanged, circular, scanVars, graphVars,
                 storeVars, pipeVars, waitVars, texts, lastVars, fsVars, lockVars, hookVars>>

\* calculate_risk_level()
CalculateRiskLevel ==
  /\ risk' = << IF Circular \/ fileImpacts.high > 5 \/ fileImpacts.total > 15
                  THEN "high"
                  ELSE IF sigChanged \/ fileImpacts.high > 0 \/ fileImpacts.total > 5
                         THEN "medium"
                         ELSE "low" >>
  /\ UNCHANGED <<deps, fileImpacts, sigChanged, circular, scanVars, graphVars,
                 storeVars, pipeVars, waitVars, texts, lastVars, fsVars, lockVars, hookVars>>

\* any imports of the three files, any number of impact entries
RiskInit ==
  /\ IdleWith([n \in Names |-> NoInode], [i \in Inodes |-> EmptyRec])
  /\ NoProject
  /\ NoGraph
  /\ deps \in [CycleFiles -> SUBSET CycleIds]
  /\ fileImpacts \in {c \in [total : 0..MaxImpacted, high : 0..MaxHigh] : c.high <= c.total}
  /\ sigChanged \in BOOLEAN
  /\ circular = <<>>
  /\ risk = <<>>
  /\ NoStores
  /\ NoPipe
  /\ NoWait
  /\ NoLast

RiskNext == DetectCircularDependencies \/ CalculateRiskLevel

RiskSpec == RiskInit /\ [][RiskNext]_vars

\* C21: detect_circular_dependencies returns True exactly when the import
\* edges among the files, from a file to the file that one of its import
\* identifiers names, form a directed cycle.
C21_CycleDetected ==
  circular # <<>> =>
    LET E == {e \in CycleFiles \X CycleFiles :
               \E id \in deps[e[1]] : Text(id) = Stem(Text(e[2]))}
        Then(R) == {e \in CycleFiles \X CycleFiles :
                     \E m \in CycleFiles : <<e[1], m>> \in R /\ <<m, e[2]>> \in E}
        Paths3 == E \cup Then(E) \cup Then(Then(E))
    IN  circular[1] <=> (\E n \in CycleFiles : <<n, n>> \in Paths3)

\* C22: cycle detection draws an edge from file A to another file B exactly
\* when find_impacted_files(B) records the reason imports for A.
C22_SameEdgeRule ==
  \A A \in CycleFiles : \A B \in CycleFiles \ {A} :
    (\E id \in deps[A] : Provides(B, id)) <=> (\E id \in deps[A] : ImportNames(id, B))

\* C23: the risk level is high iff the cycle detector reports a cycle or more
\* than 5 impact entries have severity high or more than 15 files are
\* impacted; otherwise it is medium iff a signature changed or an entry has
\* severity high or more than 5 files are impacted; otherwise it is low.
C23_RiskThresholds ==
  risk # <<>> =>
    LET t == fileImpacts.total
        h == fileImpacts.high
        isHigh == Circular \/ h > 5 \/ t > 15
        isMedium == ~isHigh /\ (sigChanged \/ h > 0 \/ t > 5)
    IN  /\ risk[1] \in {"high", "medium", "low"}
        /\ risk[1] = "high" <=> isHigh
        /\ risk[1] = "medium" <=> isMedium
        /\ (t = 16) => risk[1] = "high"
        /\ (t = 15 /\ h <= 5 /\ ~Circular) => risk[1] # "high"
        /\ (t = 6 /\ h = 0 /\ ~Circular) => risk[1] = "medium"
        /\ (t = 5 /\ h = 0 /\ ~Circular /\ ~sigChanged) => risk[1] = "low"
        /\ (t = 0 /\ ~Circular /\ ~sigChanged) => risk[1] = "low"

C23_Witness ==
  /\ risk = <<"high">>
  /\ fileImpacts = [total |-> 16, high |-> 0]
  /\ ~sigChanged
  /\ ~Circular

\* ====================================================== the persisted stores
\* _load_cache, _load_file_hashes, load_dependency_graph: the file is absent
\* -> {}; reading or json.loads raises -> {}; otherwise whatever value
\* json.loads returned, a JSON object or not.
Loaded(shape) ==
  CASE shape = "object" -> "object"
    [] shape = "wrong_shape" -> "wrong_shape"
    [] OTHER -> "empty"

\* SmartOrchestrator.__init__: loads the cache and the file hashes.
OrchestratorInit ==
  /\ store["cache"] = "none"
  /\ store' = [store EXCEPT !["cache"] = Loaded(disk["cache"]),
                            !["hashes"] = Loaded(disk["hashes"])]
  /\ UNCHANGED <<disk, raised, runPc, reported, exitStatus>>
  /\ UNCHANGED <<scanVars, graphVars, riskVars, pipeVars, waitVars, texts, lastVars, fsVars, lockVars, hookVars>>

\* get_changed_files on the loaded stores: self.cache.get(...) is outside any
\* try and raises on a value that is no dict; the accesses to
\* self.file_hashes are inside the try of the walk, whose handler reports the
\* file as changed.
UseStores ==
  /\ store["cache"] # "none"
  /\ raised' = IF store["cache"] = "wrong_shape" THEN raised \cup {"cache"}
               ELSE raised
  /\ store' = IF store["cache"] = "empty"
              THEN [store EXCEPT !["cache"] = "object"] ELSE store
  /\ UNCHANGED <<disk, runPc, reported, exitStatus>>
  /\ UNCHANGED <<scanVars, graphVars, riskVars, pipeVars, waitVars, texts, lastVars, fsVars, lockVars, hookVars>>

\* an uncaught exception ends the build-health process with a traceback
Abort(s) ==
  /\ raised' = raised \cup s
  /\ runPc' = "crashed"
  /\ exitStatus' = <<1>>
  /\ UNCHANGED <<disk, store, reported>>

\* main up to generate_report: BuildHealthMonitor.__init__ loads the graph.
MonitorInit ==
  /\ runPc = "idle"
  /\ store' = [store EXCEPT !["graph"] = Loaded(disk["graph"])]
  /\ runPc' = "detect"
  /\ UNCHANGED <<disk, raised, reported, exitStatus>>
  /\ UNCHANGED <<scanVars, graphVars, riskVars, pipeVars, waitVars, texts, lastVars, fsVars, lockVars, hookVars>>

\* detect_changed_files: a failure of git is caught and gives no changes, and
\* no changes give the nominal report at once.
DetectChangedFiles ==
  /\ runPc = "detect"
  /\ \E git \in {"changes", "none", "fails"} :
       runPc' = IF git = "changes" THEN "analyse" ELSE "report"
  /\ UNCHANGED <<disk, store, raised, reported, exitStatus>>
  /\ UNCHANGED <<scanVars, graphVars, riskVars, pipeVars, waitVars, texts, lastVars, fsVars, lockVars, hookVars>>

\* the loop of generate_report over the changed files: parse failures and file
\* I/O errors fall back to the basic parsers and to empty results; the
\* assignment self.dependency_graph[filepath] = ... is outside any try.
AnalyzeChangedFiles ==
  /\ runPc = "analyse"
  /\ \E fault \in {"none", "parse", "io"} :
       IF store["graph"] = "wrong_shape"
       THEN Abort({"graph"})
       ELSE /\ store' = [store EXCEPT !["graph"] = "object"]
            /\ runPc' = "save"
            /\ UNCHANGED <<disk, raised, reported, exitStatus>>
  /\ UNCHANGED <<scanVars, graphVars, riskVars, pipeVars, waitVars, texts, lastVars, fsVars, lockVars, hookVars>>

\* save_dependency_graph as generate_report calls it: mkdir, open and
\* json.dump, none of them inside a try.
SaveDependencyGraph ==
  /\ runPc = "save"
  /\ \E written \in BOOLEAN :
       IF written
       THEN /\ disk' = [disk EXCEPT !["graph"] = "object"]
            /\ runPc' = "report"
            /\ UNCHANGED <<store, raised, reported, exitStatus>>
       ELSE Abort({})
  /\ UNCHANGED <<scanVars, graphVars, riskVars, pipeVars, waitVars, texts, lastVars, fsVars, lockVars, hookVars>>

\* the rest of generate_report and print(report) in main
PrintReport ==
  /\ runPc = "report"
  /\ reported' = TRUE
  /\ exitStatus' = <<0>>
  /\ runPc' = "done"
  /\ UNCHANGED <<disk, store, raised>>
  /\ UNCHANGED <<scanVars, graphVars, riskVars, pipeVars, waitVars, texts, lastVars, fsVars, lockVars, hookVars>>

StoreInit ==
  /\ IdleWith([n \in Names |-> NoInode], [i \in Inodes |-> EmptyRec])
  /\ NoProject
  /\ NoGraph
  /\ NoRisk
  /\ disk \in [Stores -> Shapes]
  /\ store = [s \in Stores |-> "none"]
  /\ raised = {}
  /\ runPc = "idle"
  /\ reported = FALSE
  /\ exitStatus = <<>>
  /\ NoPipe
  /\ NoWait
  /\ NoLast

StoreNext ==
  \/ OrchestratorInit
  \/ UseStores
  \/ MonitorInit
  \/ DetectChangedFiles
  \/ AnalyzeChangedFiles
  \/ SaveDependencyGraph
  \/ PrintReport

StoreSpec == StoreInit /\ [][StoreNext]_vars

\* C24: a store whose file is absent, unreadable, malformed or of the wrong
\* shape is loaded as the empty store, and no load or later use of a store
\* raises to its caller.
C24_BadStoreLoadsEmpty ==
  [][/\ \A s \in Stores :
          store[s] = "none" /\ store'[s] # "none" /\ disk[s] # "object"
            => store'[s] = "empty"
     /\ raised' = {}]_vars

\* C25: a build-health invocation ends with the report printed and exit
\* status 0, whatever fails inside it (here on a graph store that loaded
\* as a dict).
C25_AlwaysReports ==
  (runPc \in {"done", "crashed"} /\ store["graph"] # "wrong_shape")
    => reported /\ exitStatus = <<0>>

\* ================================================ a hook process, end to end
\* main() of band_orchestrator_main.py and of band_orchestrator_stop.py at the
\* level of the streams and the exit status of the process.

\* a guard that tests for another value of the variable
GuardedByOne == env = "1"

\* the recursion guard: os.environ.get('CIATC_SUBPROCESS') == 'true'
Guarded == env = "true"

\* the first statement of main: under the guard print(sys.stdin.read()) and
\* return; otherwise event_json = sys.stdin.read()
HookMain ==
  /\ hpc = "start"
  /\ IF Guarded
     THEN stdout' = Append(stdout, "raw") /\ hpc' = "return"
     ELSE stdout' = stdout /\ hpc' = "parse"
  /\ UNCHANGED <<script, env, event, stderr, effects, status>>
  /\ UNCHANGED <<scanVars, graphVars, riskVars, storeVars, waitVars, texts, lastVars, fsVars, lockVars, hookVars>>

\* json.loads and event.get('hook_event_name'): text that is no JSON raises in
\* json.loads, JSON that is no object raises in event.get; the handler at the
\* end of the try prints to sys.stderr. An event of the other hook is skipped.
ParseEvent ==
  /\ hpc = "parse"
  /\ IF event \in {"malformed", "not_dict"}
     THEN stderr' = stderr \cup {"event"} /\ hpc' = "emit"
     ELSE stderr' = stderr /\ hpc' = IF event = script THEN "setup" ELSE "emit"
  /\ UNCHANGED <<script, env, event, stdout, effects, status>>
  /\ UNCHANGED <<scanVars, graphVars, riskVars, storeVars, waitVars, texts, lastVars, fsVars, lockVars, hookVars>>

\* SmartOrchestrator(cwd) and what follows it up to the is_locked loop. The
\* constructor reads the caches. The Stop hook then calls
\* cleanup_stale_locks, which prints the lock it removed and the error it
\* caught with print(), that is on standard output. An exception in the
\* UserPromptSubmit hook (get_project_size, get_changed_files, the Conductor)
\* reaches the handler of main, which prints to sys.stderr.
Setup ==
  /\ hpc = "setup"
  /\ IF script = "Stop"
     THEN \E cleanup \in {"nothing", "removed", "error"} :
            /\ stdout' = IF cleanup = "nothing" THEN stdout
                         ELSE Append(stdout, "diagnostic")
            /\ effects' = effects \cup {"cache_read", "lock_probe"}
            /\ hpc' = "probe"
            /\ stderr' = stderr
     ELSE \E raises \in BOOLEAN :
            /\ stdout' = stdout
            /\ effects' = effects \cup {"cache_read"}
            /\ hpc' = IF raises THEN "emit" ELSE "probe"
            /\ stderr' = IF raises THEN stderr \cup {"setup"} ELSE stderr
  /\ UNCHANGED <<script, env, event, status>>
  /\ UNCHANGED <<scanVars, graphVars, riskVars, storeVars, waitVars, texts, lastVars, fsVars, lockVars, hookVars>>

\* the is_locked loop, the executor and the collection loop. A worker that
\* raises or times out is reported by the collection loop on sys.stderr. In
\* a locked wrapper of the Stop hook an unexpected error of acquire is printed
\* by acquire with print(), on standard output.
RunWorkers ==
  /\ hpc = "probe"
  /\ \E r \in {"ok", "raised", "timeout"} \cup
              (IF script = "Stop" THEN {"lock_error"} ELSE {}) :
       /\ stderr' = IF r \in {"raised", "timeout"} THEN stderr \cup {"worker"}
                    ELSE stderr
       /\ stdout' = IF r = "lock_error" THEN Append(stdout, "diagnostic")
                    ELSE stdout
  /\ effects' = effects \cup {"lock_probe", "worker"} \cup
                  (IF script = "Stop" THEN {"lock_acquire"} ELSE {})
  /\ hpc' = IF script = "Stop" THEN "save" ELSE "emit"
  /\ UNCHANGED <<script, env, event, status>>
  /\ UNCHANGED <<scanVars, graphVars, riskVars, storeVars, waitVars, texts, lastVars, fsVars, lockVars, hookVars>>

\* the Stop hook updates the cache: _save_cache and _save_file_hashes raise
\* when the file cannot be written, into the handler of main.
WriteCaches ==
  /\ hpc = "save"
  /\ \E written \in BOOLEAN :
       /\ effects' = IF written THEN effects \cup {"cache_write"} ELSE effects
       /\ stderr' = IF written THEN stderr ELSE stderr \cup {"cache"}
  /\ hpc' = "emit"
  /\ UNCHANGED <<script, env, event, stdout, status>>
  /\ UNCHANGED <<scanVars, graphVars, riskVars, storeVars, waitVars, texts, lastVars, fsVars, lockVars, hookVars>>

\* print(json.dumps(event) if isinstance(event, dict) else event_json): event
\* is unbound after a json.loads that raised, and the NameError is caught by
\* printing event_json. The UserPromptSubmit hook appends its band report when
\* it has one.
EmitEvent ==
  /\ hpc = "emit"
  /\ LET text == IF event \in {"malformed", "not_dict"} THEN "raw" ELSE "dumped"
         report == IF script = "UserPromptSubmit" /\ "worker" \in effects
                   THEN <<"report">> ELSE <<>>
     IN  stdout' = Append(stdout, text) \o report
  /\ hpc' = "return"
  /\ UNCHANGED <<script, env, event, stderr, effects, status>>
  /\ UNCHANGED <<scanVars, graphVars, riskVars, storeVars, waitVars, texts, lastVars, fsVars, lockVars, hookVars>>

\* main() returned: sys.exit(0)
HookExit ==
  /\ hpc = "return"
  /\ status' = <<0>>
  /\ hpc' = "exited"
  /\ UNCHANGED <<script, env, event, stdout, stderr, effects>>
  /\ UNCHANGED <<scanVars, graphVars, riskVars, storeVars, waitVars, texts, lastVars, fsVars, lockVars, hookVars>>

PipeInit ==
  /\ IdleWith([n \in Names |-> NoInode], [i \in Inodes |-> EmptyRec])
  /\ NoProject
  /\ NoGraph
  /\ NoRisk
  /\ NoStores
  /\ script \in {"UserPromptSubmit", "Stop"}
  /\ env \in EnvValues
  /\ event \in Events
  /\ hpc = "start"
  /\ stdout = <<>>
  /\ stderr = {}
  /\ effects = {}
  /\ status = <<>>
  /\ NoWait
  /\ NoLast

PipeNext ==
  \/ HookMain
  \/ ParseEvent
  \/ Setup
  \/ RunWorkers
  \/ WriteCaches
  \/ EmitEvent
  \/ HookExit

PipeSpec == PipeInit /\ [][PipeNext]_vars

\* C26: a Stop hook that ran without the recursion guard ends with exit status
\* 0 and with the incoming event, and nothing else, on standard output:
\* whatever failed was reported on standard error only.
C26_StopFailuresOnStderr ==
  (script = "Stop" /\ ~Guarded /\ hpc = "exited")
    => /\ status = <<0>>
       /\ stdout \in {<<"raw">>, <<"dumped">>}

\* C27: under the recursion guard a hook prints the text it read, unchanged,
\* and does nothing else: no worker, no lock probed or acquired, no cache read
\* or written, no diagnostic.
C27_GuardPassesThrough ==
  env = "true" =>
    /\ effects = {}
    /\ stderr = {}
    /\ hpc \in {"start", "return", "exited"}
    /\ stdout = IF hpc = "start" THEN <<>> ELSE <<"raw">>
    /\ hpc = "exited" => status = <<0>>

C27_Witness ==
  env = "true" /\ hpc = "exited" /\ stdout = <<"raw">> /\ event = "Stop"

\* ================================================== acquire with a timeout
\* Two processes take and release one lock, each through a lock object that
\* is non-blocking (timeout 0) or waits (timeout > 0). The clock of this
\* specification counts polling intervals: time.sleep(0.1) is one unit.
POLL_INTERVAL == 1

\* self.fd = open(self.lock_file, 'w') of a lock object with timeout > 0,
\* then start = time.time()
OpenTimed(a, n) ==
  LET i == IF path[n] = NoInode THEN FreshInode ELSE path[n] IN
  /\ fd[a] = NoInode
  /\ path[n] = NoInode => \E j \in Inodes : ~Referenced(j, path, fd, tmp)
  /\ path' = [path EXCEPT ![n] = i]
  /\ content' = [content EXCEPT ![i].lines = NoLines]
  /\ fd' = [fd EXCEPT ![a] = i]
  /\ lname' = [lname EXCEPT ![a] = n]
  /\ start' = [start EXCEPT ![a] = now]
  /\ pc' = [pc EXCEPT ![a] = "acq_poll"]
  /\ UNCHANGED <<now, fdLocked, pname, tmp, tmpLocked, todo, hookVars>>
  /\ UNCHANGED <<scanVars, graphVars, riskVars, storeVars, pipeVars, timeout, texts, lastVars>>

\* lock = AgentLock(n, timeout); lock.acquire()
WaitAcquire(a) ==
  /\ pc[a] = "idle"
  /\ now <= WaitHorizon
  /\ \E n \in ApiNames :
       IF timeout[a] = 0 THEN OpenW(a, n) /\ UNCHANGED hookVars
       ELSE OpenTimed(a, n)

\* a poll that gives up at the first BlockingIOError, whatever the timeout
AcqPollOnce(a) ==
  /\ pc[a] = "acq_poll"
  /\ IF FlockHeldByOther(a, fd[a], FALSE)
       THEN /\ fd' = [fd EXCEPT ![a] = NoInode]
            /\ lname' = [lname EXCEPT ![a] = NoName]
            /\ content' = Reclaim(content, path, fd', tmp)
            /\ pc' = [pc EXCEPT ![a] = AfterAcquire(a, FALSE)]
            /\ UNCHANGED fdLocked
       ELSE /\ fdLocked' = [fdLocked EXCEPT ![a] = TRUE]
            /\ pc' = [pc EXCEPT ![a] = "acq_write"]
            /\ UNCHANGED <<fd, lname, content>>
  /\ UNCHANGED <<path, now, pname, tmp, tmpLocked, todo, hookVars, otherVars>>

\* one turn of the while loop: flock(LOCK_EX | LOCK_NB) succeeds and the loop
\* ends; on BlockingIOError the file is closed and acquire returns False when
\* time.time() - start > self.timeout, and the thread goes to sleep otherwise
AcqPoll(a) ==
  /\ pc[a] = "acq_poll"
  /\ IF FlockHeldByOther(a, fd[a], FALSE)
       THEN IF now - start[a] > timeout[a]
              THEN /\ fd' = [fd EXCEPT ![a] = NoInode]
                   /\ lname' = [lname EXCEPT ![a] = NoName]
                   /\ content' = Reclaim(content, path, fd', tmp)
                   /\ pc' = [pc EXCEPT ![a] = AfterAcquire(a, FALSE)]
                   /\ UNCHANGED fdLocked
              ELSE /\ pc' = [pc EXCEPT ![a] = "acq_sleep"]
                   /\ UNCHANGED <<fd, lname, content, fdLocked>>
       ELSE /\ fdLocked' = [fdLocked EXCEPT ![a] = TRUE]
            /\ pc' = [pc EXCEPT ![a] = "acq_write"]
            /\ UNCHANGED <<fd, lname, content>>
  /\ UNCHANGED <<path, now, pname, tmp, tmpLocked, todo, hookVars, otherVars>>

\* time.sleep(0.1)
AcqSleep(a) ==
  /\ pc[a] = "acq_sleep"
  /\ now + POLL_INTERVAL <= MaxClock
  /\ now' = now + POLL_INTERVAL
  /\ pc' = [pc EXCEPT ![a] = "acq_poll"]
  /\ UNCHANGED <<path, content, lname, fd, fdLocked, pname, tmp, tmpLocked, todo>>
  /\ UNCHANGED <<hookVars, otherVars>>

\* the steps of a waiting acquire that the scheduler keeps running
WaitStep(a) ==
  \/ AcqPoll(a)
  \/ AcqSleep(a)
  \/ AcqWrite(a) /\ UNCHANGED hookVars

WaitInit ==
  /\ IdleWith([n \in Names |-> NoInode], [i \in Inodes |-> EmptyRec])
  /\ NoProject
  /\ NoGraph
  /\ NoRisk
  /\ NoStores
  /\ NoPipe
  /\ timeout \in [Procs -> {0, WaitTimeout}]
  /\ start = [a \in Procs |-> 0]
  /\ texts = <<>>
  /\ NoLast

WaitNext ==
  \/ \E a \in Procs : WaitAcquire(a)
  \/ \E a \in Procs : AcqFlock(a) /\ UNCHANGED hookVars
  \/ \E a \in Procs : AcqPoll(a)
  \/ \E a \in Procs : AcqSleep(a)
  \/ \E a \in Procs : AcqWrite(a) /\ UNCHANGED hookVars
  \/ \E a \in Procs : ApiRelease(a)
  \/ \E a \in Procs : RelUnlink(a) /\ UNCHANGED hookVars

\* a process that waits for the lock keeps running
WaitSpec == WaitInit /\ [][WaitNext]_vars /\ \A a \in Procs : WF_vars(WaitStep(a))

\* the acquire of a is in its polling loop
Polling(a) == pc[a] \in {"acq_poll", "acq_sleep"}

\* no other process holds the lock or tries to take it
NoContender(a) ==
  \A b \in Procs \ {a} : ~fdLocked[b] /\ pc[b] \in {"idle", "rel_unlink"}

C29_RecordStoredAndRemoved ==
  [][\A a \in Procs :
       /\ (pc[a] = "acq_write" /\ pc'[a] = "idle" /\ fd'[a] # NoInode)
            => /\ path'[lname[a]] = fd[a]
               /\ content'[fd[a]].lines = <<Pid(a), now>>
       /\ (pc[a] = "rel_unlink" /\ pc'[a] = "idle")
            => /\ fd'[a] = NoInode /\ ~fdLocked'[a]
               /\ path'[lname[a]] = NoInode]_vars

\* =================================================== the rendered reasons
\* Runs of find_impacted_files over one dependency graph, with the reason
\* strings as they are built: ", ".join(...) of a set of names, whose
\* iteration order follows the string hashes of the process.

\* the orders in which a set of names can be iterated
Orders(S) ==
  {q \in [1..Cardinality(S) -> S] : \A x \in S : \E i \in 1..Cardinality(S) : q[i] = x}

\* the strings a reason can be rendered as: its kind followed by the names
RenderedAs(r) == {<<r.kind>> \o q : q \in Orders(r.names)}

\* the lists of reason strings find_impacted_files(c) can store for file f
TextsOf(c, f) ==
  LET rs == ReasonsFor(graph, c, f)
  IN  {t \in [1..Len(rs) -> UNION {RenderedAs(rs[i]) : i \in 1..Len(rs)}] :
         \A i \in 1..Len(rs) : t[i] \in RenderedAs(rs[i])}

\* one run of find_impacted_files(c) on the loaded graph
RenderRun(c) ==
  /\ Len(texts) < 2
  /\ \E t \in {x \in [GraphFiles \ {c} -> UNION {TextsOf(c, f) : f \in GraphFiles \ {c}}] :
                 \A f \in GraphFiles \ {c} : x[f] \in TextsOf(c, f)} :
       texts' = Append(texts, [changed |-> c, reasons |-> t])
  /\ UNCHANGED <<scanVars, graphVars, riskVars, storeVars, pipeVars, waitVars, lastVars>>
  /\ UNCHANGED <<fsVars, lockVars, hookVars>>

\* the signature changes a stored entry with definitions defs can hold
StoredChanges(defs) ==
  {<<>>} \cup
  {<<[name |-> d.name, old |-> d.signature, new |-> SigOf(defs, d.name)]>> :
     d \in {x \in DefItems : x.name \in NamesOf(defs) /\ x.signature # SigOf(defs, x.name)}}

\* a dependency graph file with an entry for each of the two files
ReportInit ==
  /\ IdleWith([n \in Names |-> NoInode], [i \in Inodes |-> EmptyRec])
  /\ NoProject
  /\ source \in {s \in [GraphFiles -> UNION {Extractions(f) : f \in GraphFiles}] :
                    \A f \in GraphFiles : s[f] \in Extractions(f)}
  /\ \E sc \in StoredChanges(source[DEFINER].definitions) :
       graph = [f \in GraphFiles |-> <<Entry(f, IF f = DEFINER THEN sc ELSE <<>>)>>]
  /\ impacts = [f \in GraphFiles |-> <<>>]
  /\ replaced = FALSE
  /\ NoRisk
  /\ NoStores
  /\ NoPipe
  /\ timeout = [a \in Procs |-> 0]
  /\ start = [a \in Procs |-> 0]
  /\ texts = <<>>
  /\ NoLast

ReportNext == \E c \in GraphFiles : RenderRun(c)

ReportSpec == ReportInit /\ [][ReportNext]_vars

\* C30: two runs of find_impacted_files for the same changed file over the
\* same dependency graph give the same reason strings, the order of the names
\* inside a reason included.
C30_SameReasonStrings ==
  (Len(texts) = 2 /\ texts[1].changed = texts[2].changed)
    => texts[1].reasons = texts[2].reasons

C34_FailedAcquireKeepsRecord ==
  \A a \in Procs : \A n \in ApiNames :
    (/\ Holds(a, n)
     /\ pc[a] = "idle"
     /\ path[n] = fd[a]
     /\ \A b \in Procs \ {a} : pc[b] = "idle" /\ fd[b] = NoInode)
      => /\ content[fd[a]].acquiredAt # <<>>
         /\ content[fd[a]].lines = <<Pid(a), content[fd[a]].acquiredAt[1]>>

\* C35: a non-blocking acquire returns False only when the acquire of another
\* process holds the flock of the file: the flock that is_locked and
\* cleanup_stale_locks take for their probe never makes an acquire fail.
C35_OnlyHoldersBlock ==
  [][\A a \in Procs :
       (pc[a] = "acq_flock" /\ pc'[a] = "idle" /\ fd'[a] = NoInode)
         => \E b \in Actors \ {a} : fd[b] = fd[a] /\ fdLocked[b]]_vars

\* C38: detect_circular_dependencies returns False whenever no import
\* identifier of a file resolves, by the rule of the detector itself, to
\* another file; an identifier that matches the path of the importing file
\* is no cycle.
C38_SelfMatchIsNoCycle ==
  (/\ circular # <<>>
   /\ \A A \in CycleFiles : \A B \in CycleFiles \ {A} :
        \A id \in deps[A] : ~Provides(B, id))
    => circular[1] = FALSE

\* ====================================================== the timeout budget
\* run_conductor and the dispatch of the workers in the two hooks.

\* the variables of every earlier section
earlierVars == <<fsVars, lockVars, hookVars, scanVars, graphVars, riskVars,
                 storeVars, pipeVars, waitVars, texts>>

\* every earlier section at rest
AtRest ==
  /\ IdleWith([n \in Names |-> NoInode], [i \in Inodes |-> EmptyRec])
  /\ NoProject /\ NoGraph /\ NoRisk /\ NoStores /\ NoPipe /\ NoWait

\* no invocation of the build-health engine has started
NoMonitors ==
  /\ impactMap = <<>>
  /\ gfile = [f \in GraphFiles |-> 0]
  /\ mem = [m \in Monitors |-> [f \in GraphFiles |-> 0]]
  /\ mpc = [m \in Monitors |-> "idle"]
  /\ changedBy = [m \in Monitors |-> {}]

\* suggested_timeout of run_conductor for n changed files
SuggestedTimeout(n) ==
  IF n > 100 THEN 300
  ELSE IF n > 50 THEN 240
  ELSE IF n > 20 THEN 180
  ELSE 120

\* the timeouts the Conductor may answer
AnsweredTimeouts == {60, 120, 180, 240, 300}

\* run_conductor(user_prompt, project_stats): without the prompt template the
\* fallback is returned before any timeout is computed; the suggested timeout
\* goes into the text of the prompt; the decision is the JSON the Conductor
\* answered, or the fallback for its timeout, or the fallback for any error
RunConductor ==
  /\ decision = <<>>
  /\ dispatched = <<>>
  /\ \/ decision' = <<[should_run |-> TRUE, timeout |-> 120, hint |-> <<>>]>>
     \/ decision' = <<[should_run |-> FALSE, timeout |-> 0,
                       hint |-> <<SuggestedTimeout(nChanged)>>]>>
     \/ decision' = <<[should_run |-> TRUE, timeout |-> 30,
                       hint |-> <<SuggestedTimeout(nChanged)>>]>>
     \/ \E run \in BOOLEAN, t \in AnsweredTimeouts :
          decision' = <<[should_run |-> run, timeout |-> t,
                         hint |-> <<SuggestedTimeout(nChanged)>>]>>
  /\ UNCHANGED <<prompt, lastRun, nChanged, selected, plan, dispatched>>
  /\ UNCHANGED <<impactMap, monitorVars, earlierVars>>

\* main of the UserPromptSubmit hook: the workers are submitted with the
\* timeout of the decision
DispatchMain ==
  /\ decision # <<>>
  /\ decision[1].should_run
  /\ dispatched = <<>>
  /\ dispatched' = <<[hook |-> "UserPromptSubmit", timeout |-> decision[1].timeout]>>
  /\ UNCHANGED <<prompt, lastRun, nChanged, selected, plan, decision>>
  /\ UNCHANGED <<impactMap, monitorVars, earlierVars>>

\* main of the Stop hook: the workers are submitted with timeout = 600
DispatchStop ==
  /\ decision = <<>>
  /\ dispatched = <<>>
  /\ dispatched' = <<[hook |-> "Stop", timeout |-> 600]>>
  /\ UNCHANGED <<prompt, lastRun, nChanged, selected, plan, decision>>
  /\ UNCHANGED <<impactMap, monitorVars, earlierVars>>

ConductorInit ==
  /\ AtRest
  /\ NoMonitors
  /\ prompt = <<>>
  /\ lastRun = "never"
  /\ nChanged \in 0..MaxChanged
  /\ selected = <<>>
  /\ plan = <<>>
  /\ decision = <<>>
  /\ dispatched = <<>>

ConductorNext == RunConductor \/ DispatchMain \/ DispatchStop

ConductorSpec == ConductorInit /\ [][ConductorNext]_vars

\* the budget of the specification for n changed files
Budget(n) ==
  CASE n <= 20 -> 120
    [] n >= 21 /\ n <= 50 -> 180
    [] n >= 51 /\ n <= 100 -> 240
    [] n > 100 -> 300

\* C32: the timeout budget is 120 s up to 20 changed files, 180 s for 21 to
\* 50, 240 s for 51 to 100 and 300 s above 100, it never decreases as the
\* number of changed files grows, and the workers are dispatched with the
\* timeout of this budget.
C32_DispatchFollowsBudget ==
  /\ \A n \in 0..MaxChanged : SuggestedTimeout(n) = Budget(n)
  /\ \A n, k \in 0..MaxChanged : n <= k => SuggestedTimeout(n) <= SuggestedTimeout(k)
  /\ dispatched # <<>> => dispatched[1].timeout = Budget(nChanged)

\* ====================================================== the execution plan
\* SmartOrchestrator: the patterns, should_skip_hooks, select_agents and
\* get_execution_plan. A prompt is the sequence of its characters.

\* the prefixes of a prompt that needs no agent
SKIP_PATTERNS ==
  { <<"w", "h", "a", "t", " ", "i", "s">>,
    <<"h", "o", "w", " ", "d", "o", " ", "i">>,
    <<"e", "x", "p", "l", "a", "i", "n">>,
    <<"c", "a", "n", " ", "y", "o", "u", " ", "h", "e", "l", "p", " ", "m", "e", " ", "u", "n", "d", "e", "r", "s", "t", "a", "n", "d">>,
    <<"w", "h", "a", "t", " ", "d", "o", "e", "s">>,
    <<"t", "e", "l", "l", " ", "m", "e", " ", "a", "b", "o", "u", "t">>,
    <<"s", "h", "o", "w", " ", "m", "e">>,
    <<"l", "i", "s", "t">>,
    <<"w", "h", "e", "r", "e", " ", "i", "s">>,
    <<"w", "h", "y", " ", "d", "o", "e", "s">>,
    <<"w", "h", "e", "n", " ", "s", "h", "o", "u", "l", "d">> }

\* the words of a prompt that needs the agents
FULL_BAND_PATTERNS ==
  { <<"r", "e", "f", "a", "c", "t", "o", "r">>,
    <<"i", "m", "p", "l", "e", "m", "e", "n", "t">>,
    <<"c", "r", "e", "a", "t", "e">>,
    <<"a", "d", "d", " ", "f", "e", "a", "t", "u", "r", "e">>,
    <<"b", "u", "i", "l", "d">>,
    <<"d", "e", "s", "i", "g", "n">>,
    <<"a", "r", "c", "h", "i", "t", "e", "c", "t">>,
    <<"m", "i", "g", "r", "a", "t", "e">>,
    <<"o", "p", "t", "i", "m", "i", "z", "e">> }

\* the words that request paul by name
PAUL_WORDS ==
  { <<"p", "a", "u", "l">>,
    <<"w", "i", "l", "d", " ", "i", "d", "e", "a">>,
    <<"c", "r", "e", "a", "t", "i", "v", "e", " ", "p", "e", "r", "s", "p", "e", "c", "t", "i", "v", "e">> }

\* a prompt of more than 100 characters
LongPrompt == [i \in 1..101 |-> "x"]

\* the prompts of the model, up to 100 characters
ShortPrompts ==
  { <<"f", "i", "x", " ", "i", "t">>,
    <<"W", "h", "a", "t", " ", "i", "s", " ", "t", "h", "e", " ", "m", "e", "a", "n", "i", "n", "g", " ", "o", "f", " ", "t", "h", "i", "s", " ", "c", "o", "d", "e">>,
    <<"R", "e", "f", "a", "c", "t", "o", "r", " ", "t", "h", "e", " ", "p", "a", "r", "s", "e", "r", " ", "m", "o", "d", "u", "l", "e">>,
    <<"t", "e", "l", "l", " ", "m", "e", " ", "w", "h", "y", " ", "t", "h", "e", " ", "t", "e", "s", "t", "s", " ", "f", "a", "i", "l">>,
    <<"A", "s", "k", " ", "P", "a", "u", "l", " ", "f", "o", "r", " ", "a", " ", "w", "i", "l", "d", " ", "i", "d", "e", "a">>,
    <<"p", "l", "e", "a", "s", "e", " ", "f", "i", "x", " ", "t", "h", "e", " ", "f", "a", "i", "l", "i", "n", "g", " ", "t", "e", "s", "t", "s">>,
    <<"l", "o", "o", "k", " ", "a", "t", " ", "t", "h", "e", " ", "s", "t", "r", "u", "c", "t", "u", "r", "e", " ", "h", "e", "r", "e">>,
    <<"a", "s", " ", "w", "e", " ", "d", "i", "s", "c", "u", "s", "s", "e", "d", ",", " ", "c", "o", "n", "t", "i", "n", "u", "e", " ", "p", "l", "e", "a", "s", "e">>,
    <<"E", "x", "p", "l", "a", "i", "n", " ", "t", "h", "e", " ", "c", "a", "c", "h", "e", " ", "l", "a", "y", "e", "r", " ", "h", "e", "r", "e">> }

Prompts == ShortPrompts \cup {LongPrompt}

UpperCase == <<"A", "B", "C", "D", "E", "F", "G", "H", "I", "J", "K", "L", "M", "N", "O", "P", "Q", "R", "S", "T", "U", "V", "W", "X", "Y", "Z">>

LowerCase == <<"a", "b", "c", "d", "e", "f", "g", "h", "i", "j", "k", "l", "m", "n", "o", "p", "q", "r", "s", "t", "u", "v", "w", "x", "y", "z">>

\* str.lower()
PromptLower(p) ==
  [i \in 1..Len(p) |->
     IF \E k \in 1..Len(UpperCase) : UpperCase[k] = p[i]
     THEN LowerCase[CHOOSE k \in 1..Len(UpperCase) : UpperCase[k] = p[i]]
     ELSE p[i]]

\* str.startswith
StartsWith(p, w) == Len(w) <= Len(p) /\ SubSeq(p, 1, Len(w)) = w

\* the elements of a list
Listed(l) == {l[i] : i \in 1..Len(l)}

\* select_agents(prompt, changed_files) for a prompt p, n changed files and
\* the last_run entry of the cache
SelectAgents(p, n, last) ==
  LET low == PromptLower(p)
      ringo == <<"ringo">>
      john == IF n > 0 \/ IsIn(Text("structure"), low) \/ IsIn(Text("files"), low)
              THEN <<"john">> ELSE <<>>
      george == IF Len(p) > 100 \/ IsIn(Text("previous"), low)
                   \/ IsIn(Text("we discussed"), low)
                THEN <<"george">> ELSE <<>>
      pete == IF \E w \in FULL_BAND_PATTERNS : IsIn(w, low) THEN <<"pete">> ELSE <<>>
      paul == IF \E w \in PAUL_WORDS : IsIn(w, low) THEN <<"paul">> ELSE <<>>
      picked == ringo \o john \o george \o pete \o paul
  IN  IF Len(picked) = 1 /\ (last = "never" \/ n > 10)
      THEN <<"john", "george", "pete", "paul", "ringo">>
      ELSE picked

\* a call of select_agents
SelectCall ==
  /\ selected = <<>>
  /\ selected' = <<SelectAgents(prompt, nChanged, lastRun)>>
  /\ UNCHANGED <<prompt, lastRun, nChanged, plan, decision, dispatched>>
  /\ UNCHANGED <<impactMap, monitorVars, earlierVars>>

SelectInit ==
  /\ AtRest
  /\ NoMonitors
  /\ prompt \in Prompts
  /\ lastRun \in {"never", "recent", "old"}
  /\ nChanged \in 0..MaxSelected
  /\ selected = <<>>
  /\ plan = <<>>
  /\ decision = <<>>
  /\ dispatched = <<>>

SelectNext == SelectCall

SelectSpec == SelectInit /\ [][SelectNext]_vars

\* C39: the result of select_agents always contains ringo, and contains paul
\* only when the prompt contains 'paul', 'wild idea' or 'creative
\* perspective', whatever the prompt, the cache and the changed files.
C39_PaulOnlyOnRequest ==
  selected # <<>> =>
    /\ "ringo" \in Listed(selected[1])
    /\ "paul" \in Listed(selected[1]) =>
         \E w \in PAUL_WORDS : IsIn(w, PromptLower(prompt))

\* str.strip(), for the blanks of the model
Strip(p) ==
  LET inked == {i \in 1..Len(p) : p[i] # " "}
  IN  IF inked = {} THEN <<>>
      ELSE SubSeq(p, CHOOSE i \in inked : \A j \in inked : i <= j,
                     CHOOSE i \in inked : \A j \in inked : j <= i)

\* the files the walk adds to changed when the cached hashes are h
ChangedAgainst(h) ==
  {p \in Paths : /\ tree[p].exists
                  /\ ~Ignored(p)
                  /\ (h[p] = NoHash \/ h[p] # HashFile(tree[p]))}

\* get_changed_files on a cache c = [mtime, hashes]: the cache it leaves and
\* the set it returns
Scanned(c) ==
  IF rootMtime <= c.mtime
  THEN [mtime |-> c.mtime, hashes |-> c.hashes, changed |-> {}, calls |-> 1]
  ELSE [mtime |-> rootMtime,
        hashes |-> [p \in Paths |-> IF p \in ChangedAgainst(c.hashes)
                                     THEN HashFile(tree[p])
                                     ELSE c.hashes[p]],
        changed |-> ChangedAgainst(c.hashes), calls |-> 1]

\* should_skip_hooks(prompt) on a cache c: the verdict, and the cache after
\* the call of has_file_changes when the last test makes it
ShouldSkipHooks(p, c) ==
  LET low == Strip(PromptLower(p))
      untouched == [mtime |-> c.mtime, hashes |-> c.hashes, changed |-> {}, calls |-> 0]
  IN  IF Len(p) < 20 THEN [skip |-> TRUE, after |-> untouched]
      ELSE IF \E w \in SKIP_PATTERNS : StartsWith(low, w)
        THEN [skip |-> TRUE, after |-> untouched]
      ELSE IF \E w \in FULL_BAND_PATTERNS : IsIn(w, low)
        THEN [skip |-> FALSE, after |-> untouched]
      ELSE IF IsIn(Text("why"), low) \/ IsIn(Text("explain"), low)
        THEN [skip |-> Scanned(c).changed = {}, after |-> Scanned(c)]
      ELSE [skip |-> FALSE, after |-> untouched]

\* should_use_light_mode for a project of the given size
ShouldUseLightMode(fileCount, totalLines) ==
  \/ fileCount > 500
  \/ totalLines > 50000
  \/ lastRun = "recent"

\* the agents of light mode
LightAgents(p) ==
  LET low == PromptLower(p)
  IN  IF IsIn(Text("code"), low) \/ IsIn(Text("implement"), low) THEN <<"ringo", "pete">>
      ELSE IF IsIn(Text("structure"), low) THEN <<"ringo", "john">>
      ELSE <<"ringo", "george">>

\* get_adaptive_timeout
GetAdaptiveTimeout(fileCount) ==
  IF fileCount < 100 THEN 60 ELSE IF fileCount < 500 THEN 120 ELSE 180

\* the sizes of the project: files and lines
FileCounts == {50, 300, 600}

LineCounts == {1000, 60000}

\* get_execution_plan(prompt)
GetExecutionPlan ==
  /\ plan = <<>>
  /\ \E fileCount \in FileCounts, totalLines \in LineCounts :
       LET first == ShouldSkipHooks(prompt, [mtime |-> lastScanMtime, hashes |-> fileHashes])
           second == Scanned(first.after)
           light == ShouldUseLightMode(fileCount, totalLines)
           chosen == IF light THEN LightAgents(prompt)
                     ELSE SelectAgents(prompt, Cardinality(second.changed), lastRun)
       IN  IF first.skip
           THEN /\ plan' = <<[should_run |-> FALSE, agents |-> <<>>, timeout |-> 0,
                              light_mode |-> TRUE, changed_files |-> 0]>>
                /\ lastScanMtime' = first.after.mtime
                /\ fileHashes' = first.after.hashes
                /\ returned' = IF first.after.calls = 1 THEN <<first.after.changed>> ELSE <<>>
                /\ UNCHANGED lastRun
           ELSE /\ plan' = <<[should_run |-> TRUE, agents |-> chosen,
                              timeout |-> GetAdaptiveTimeout(fileCount),
                              light_mode |-> light,
                              changed_files |-> Cardinality(second.changed)]>>
                /\ lastScanMtime' = second.mtime
                /\ fileHashes' = second.hashes
                /\ returned' = IF first.after.calls = 1
                                 THEN <<first.after.changed, second.changed>>
                                 ELSE <<second.changed>>
                /\ lastRun' = "recent"
  /\ UNCHANGED <<tree, rootMtime, prompt, nChanged, selected, decision, dispatched>>
  /\ UNCHANGED <<impactMap, monitorVars>>
  /\ UNCHANGED <<fsVars, lockVars, hookVars, graphVars, riskVars, storeVars, pipeVars,
                 waitVars, texts>>

\* any tree, with the cache of an earlier run or none
PlanInit ==
  /\ IdleWith([n \in Names |-> NoInode], [i \in Inodes |-> EmptyRec])
  /\ NoGraph /\ NoRisk /\ NoStores /\ NoPipe /\ NoWait
  /\ NoMonitors
  /\ tree \in {t \in [Paths -> FileStates] : \A p \in Paths : Ignored(p) => t[p] = Absent}
  /\ rootMtime = 1
  /\ lastScanMtime \in {0, rootMtime}
  /\ fileHashes \in {[p \in Paths |-> NoHash],
                     [p \in Paths |-> IF Ignored(p) THEN NoHash ELSE "md5(v1)"]}
  /\ returned = <<>>
  /\ prompt \in ShortPrompts
  /\ lastRun \in {"never", "recent", "old"}
  /\ nChanged = 0
  /\ selected = <<>>
  /\ plan = <<>>
  /\ decision = <<>>
  /\ dispatched = <<>>

PlanNext == GetExecutionPlan

PlanSpec == PlanInit /\ [][PlanNext]_vars

\* C36: whenever get_execution_plan does not skip the prompt, the plan's
\* changed_files is the number of files that changed since the previous
\* scan, as one scan at the start of the call reports them, and the agents
\* are selected from that set, whichever tests of should_skip_hooks ran.
C36_PlanCountsEveryChange ==
  [][(plan = <<>> /\ plan' # <<>> /\ plan'[1].should_run) =>
       LET full == IF FastPath THEN {} ELSE ChangedFiles
       IN  /\ plan'[1].changed_files = Cardinality(full)
           /\ plan'[1].agents = IF plan'[1].light_mode THEN LightAgents(prompt)
                                ELSE SelectAgents(prompt, Cardinality(full), lastRun)]_vars

\* ====================================================== the impact map
\* The loop of generate_report over the changed files.

\* detect_signature_changes(f) against the entry graph g holds for f
SigChangesIn(g, f) ==
  IF g[f] = <<>>
    THEN <<>>
    ELSE LET old == g[f][1].definitions
             new == source[f].definitions
             Changed(i) == /\ \A j \in 1..(i - 1) : new[j].name # new[i].name
                           /\ new[i].name \in NamesOf(old)
                           /\ SigOf(old, new[i].name) # SigOf(new, new[i].name)
             at == SelectSeq([i \in 1..Len(new) |-> i], Changed)
         IN  [k \in 1..Len(at) |-> [name |-> new[at[k]].name,
                                     old |-> SigOf(old, new[at[k]].name),
                                     new |-> SigOf(new, new[at[k]].name)]]

\* the graph after analyze_dependencies(f) on graph g
AnalyzedIn(g, f) == [g EXCEPT ![f] = <<Entry(f, SigChangesIn(g, f))>>]

\* what find_impacted_files(c) returns on graph g, which has an entry for c
ImpactedIn(g, c) ==
  [f \in GraphFiles |->
     LET rs == ReasonsFor(g, c, f)
     IN  IF f = c \/ g[f] = <<>> \/ rs = <<>>
           THEN <<>>
           ELSE <<[reasons |-> rs,
                   severity |-> IF \E i \in 1..Len(rs) : ContainsModified(rs[i])
                                  THEN "high" ELSE "medium"]>>]

\* the loop of generate_report over the list of changed files: each file is
\* analysed and its impacted files are stored in file_impacts
RECURSIVE ReportLoop(_, _, _)
ReportLoop(g, m, order) ==
  IF order = <<>> THEN [graph |-> g, file_impacts |-> m]
  ELSE LET c == Head(order)
           g1 == AnalyzedIn(g, c)
       IN  ReportLoop(g1, [m EXCEPT ![c] = <<ImpactedIn(g1, c)>>], Tail(order))

\* the lists detect_changed_files can return for a set of changed files
ChangedLists == UNION {Orders(S) : S \in (SUBSET GraphFiles) \ {{}}}

\* generate_report for a list of changed files; the graph is saved at the end
GenerateReport ==
  /\ impactMap = <<>>
  /\ \E order \in ChangedLists :
       LET run == ReportLoop(graph, [f \in GraphFiles |-> <<>>], order)
       IN  /\ graph' = run.graph
           /\ impactMap' = <<[order |-> order, file_impacts |-> run.file_impacts]>>
  /\ UNCHANGED <<source, impacts, replaced, planVars, monitorVars>>
  /\ UNCHANGED <<fsVars, lockVars, hookVars, scanVars, riskVars, storeVars, pipeVars,
                 waitVars, texts>>

\* the process ends; the next invocation starts with no file_impacts
ReportDone ==
  /\ impactMap # <<>>
  /\ impactMap' = <<>>
  /\ UNCHANGED <<graphVars, planVars, monitorVars>>
  /\ UNCHANGED <<fsVars, lockVars, hookVars, scanVars, riskVars, storeVars, pipeVars,
                 waitVars, texts>>

\* the graph an earlier run saved for sources s: an entry per analysed file
FirstEntries(s, analysed) ==
  [f \in GraphFiles |->
     IF f \in analysed
       THEN <<[imports |-> s[f].imports, definitions |-> s[f].definitions,
               calls |-> s[f].calls, language |-> "python", signature_changes |-> <<>>]>>
       ELSE <<>>]

\* the sources of the two files
Sources ==
  {s \in [GraphFiles -> UNION {Extractions(f) : f \in GraphFiles}] :
      \A f \in GraphFiles : s[f] \in Extractions(f)}

\* two files, edited or not since the run that saved the graph
ImpactInit ==
  /\ IdleWith([n \in Names |-> NoInode], [i \in Inodes |-> EmptyRec])
  /\ NoProject /\ NoRisk /\ NoStores /\ NoPipe /\ NoWait /\ NoLast
  /\ source \in Sources
  /\ graph \in {FirstEntries(s, a) : s \in Sources, a \in SUBSET GraphFiles}
  /\ impacts = [f \in GraphFiles |-> <<>>]
  /\ replaced = FALSE

ImpactNext == GenerateReport \/ ReportDone

ImpactSpec == ImpactInit /\ [][ImpactNext]_vars

\* C37: the file_impacts generate_report computes for a list of changed
\* files is the one it computes for every other order of the same files:
\* the same impacted files, reasons and severities for each changed file.
C37_OrderIndependent ==
  [][(impactMap = <<>> /\ impactMap' # <<>>) =>
       \A other \in ChangedLists :
         Listed(other) = Listed(impactMap'[1].order) =>
           ReportLoop(graph, [f \in GraphFiles |-> <<>>], other).file_impacts
             = impactMap'[1].file_impacts]_vars

\* ====================================================== overlapping invocations
\* Two invocations of the build-health engine on one project. An entry of the
\* graph is named by the invocation that wrote it, 0 for an entry older than
\* both (or none).

\* the frame of an invocation's step
MonitorFrame ==
  /\ UNCHANGED <<planVars, impactMap>>
  /\ UNCHANGED <<fsVars, lockVars, hookVars, scanVars, graphVars, riskVars, storeVars,
                 pipeVars, waitVars, texts>>

\* some invocation has opened the graph file for writing and not yet dumped
Truncated == \E o \in Monitors : mpc[o] = "writing"

\* __init__: load_dependency_graph reads the file; a file that does not parse
\* gives the empty graph
LoadGraph(m) ==
  /\ mpc[m] = "idle"
  /\ mem' = [mem EXCEPT ![m] = IF Truncated THEN [f \in GraphFiles |-> 0] ELSE gfile]
  /\ mpc' = [mpc EXCEPT ![m] = "loaded"]
  /\ UNCHANGED <<gfile, changedBy>>
  /\ MonitorFrame

\* generate_report: detect_changed_files; with no changed file it returns
DetectChanged(m) ==
  /\ mpc[m] = "loaded"
  /\ \E c \in SUBSET GraphFiles :
       /\ changedBy' = [changedBy EXCEPT ![m] = c]
       /\ mpc' = [mpc EXCEPT ![m] = IF c = {} THEN "quit" ELSE "detected"]
  /\ UNCHANGED <<gfile, mem>>
  /\ MonitorFrame

\* the loop of generate_report: the entry of each changed file is replaced in
\* self.dependency_graph
MergeChanged(m) ==
  /\ mpc[m] = "detected"
  /\ mem' = [mem EXCEPT ![m] = [f \in GraphFiles |-> IF f \in changedBy[m] THEN m
                                                       ELSE mem[m][f]]]
  /\ mpc' = [mpc EXCEPT ![m] = "merged"]
  /\ UNCHANGED <<gfile, changedBy>>
  /\ MonitorFrame

\* save_dependency_graph: open(graph_path, 'w') truncates the file
SaveOpen(m) ==
  /\ mpc[m] = "merged"
  /\ mpc' = [mpc EXCEPT ![m] = "writing"]
  /\ UNCHANGED <<gfile, mem, changedBy>>
  /\ MonitorFrame

\* a save that rewrites only the entries of its own changed files
SaveMerging(m) ==
  /\ mpc[m] = "writing"
  /\ gfile' = [f \in GraphFiles |-> IF f \in changedBy[m] THEN m ELSE gfile[f]]
  /\ mpc' = [mpc EXCEPT ![m] = "saved"]
  /\ UNCHANGED <<mem, changedBy>>
  /\ MonitorFrame

\* save_dependency_graph: json.dump writes the whole of self.dependency_graph
SaveDump(m) ==
  /\ mpc[m] = "writing"
  /\ gfile' = mem[m]
  /\ mpc' = [mpc EXCEPT ![m] = "saved"]
  /\ UNCHANGED <<mem, changedBy>>
  /\ MonitorFrame

\* both processes have ended; the hooks may start the engine again
MonitorsExit ==
  /\ \A o \in Monitors : mpc[o] \in {"quit", "saved"}
  /\ mpc' = [o \in Monitors |-> "idle"]
  /\ mem' = [o \in Monitors |-> [f \in GraphFiles |-> 0]]
  /\ changedBy' = [o \in Monitors |-> {}]
  /\ UNCHANGED gfile
  /\ MonitorFrame

OverlapInit ==
  /\ AtRest
  /\ NoLast

OverlapNext ==
  \/ \E m \in Monitors : LoadGraph(m)
  \/ \E m \in Monitors : DetectChanged(m)
  \/ \E m \in Monitors : MergeChanged(m)
  \/ \E m \in Monitors : SaveOpen(m)
  \/ \E m \in Monitors : SaveDump(m)
  \/ MonitorsExit

OverlapSpec == OverlapInit /\ [][OverlapNext]_vars

\* C33: nothing serialises two overlapping invocations: each loads the graph
\* file, merges its own changed files and rewrites the file wholesale, so
\* once an invocation has saved and no save is in progress the file is
\* exactly the in-memory graph of one invocation that saved, never a merge of
\* two, and the entries of the invocation that saved first can be missing
\* from the final file.
C33_LastWriterWins ==
  /\ \A m \in Monitors :
       mpc[m] \in {"merged", "writing", "saved"} =>
         \A f \in changedBy[m] : mem[m][f] = m
  /\ ((\E m \in Monitors : mpc[m] = "saved") /\ ~Truncated) =>
       \E m \in Monitors : mpc[m] = "saved" /\ gfile = mem[m]

\* both invocations saved, and an entry one of them merged is not in the file
C33_Witness ==
  /\ \A m \in Monitors : mpc[m] = "saved"
  /\ \E m \in Monitors : \E f \in changedBy[m] :
       /\ gfile[f] # m
       /\ \A o \in Monitors \ {m} : f \notin changedBy[o]
====
